---- MODULE Spec2Model ----
(***************************************************************************)
(* BattSafe firmware: the correlation engine (correlation_engine.c), the   *)
(* part of the anomaly evaluator that produces the engine's input          *)
(* (anomaly_eval.c), the relay gate (hal_gpio.c), the cooperative          *)
(* scheduler of the target build (main.c) and the two UART protocols       *)
(* (input_packet.c, packet_format.c).                                      *)
(*                                                                         *)
(* The specifications share the state:                                     *)
(*   SpecEngine  the engine API driven by arbitrary evaluator results and  *)
(*               resets;                                                   *)
(*   Spec        the target main loop: input acquisition, fast / medium /  *)
(*               slow slots, tick advance and demo restart;                *)
(*   SpecHold    the same loop followed through a whole CRITICAL hold;     *)
(*   SpecBoot    the start-up of the target build with any threshold       *)
(*               record;                                                   *)
(*   SpecRestart the same loop followed through the demo restart;          *)
(*   SpecTrip    the same loop from an early trip through the restart;     *)
(*   SpecEval    the evaluator on its own, channel by channel;             *)
(*   SpecRx      the inbound frame parser (input_packet.c) fed byte by     *)
(*               byte with frames, filler and noise;                       *)
(*   SpecPacket  the telemetry pack frame (packet_format.c): encoded,      *)
(*               changed and validated.                                    *)
(***************************************************************************)
EXTENDS Integers, FiniteSets, Sequences, TLC

\* ------------------------------------------------------------------------
\* Program constants
\* ------------------------------------------------------------------------

STATE_NORMAL == 0
STATE_WARNING == 1
STATE_CRITICAL == 2
STATE_EMERGENCY == 3

GPIO_LOW == 0
GPIO_HIGH == 1

FAST_LOOP_NORMAL_MS == 100
MED_LOOP_NORMAL_MS == 500
SLOW_LOOP_NORMAL_MS == 5000
FAST_LOOP_ALERT_MS == 20
MED_LOOP_ALERT_MS == 100
SLOW_LOOP_ALERT_MS == 1000
SLOW_LOOP_EXTERNAL_MS == 1000

CRITICAL_HOLD_MS == 10000
DEESCALATION_HOLD_MS == 5000

SCHED_TICK_MS == 10
SIM_DURATION_S == 215
EXTERNAL_INPUT_TIMEOUT_MS == 2000

CAT_COUNT == 5
CAT_ELECTRICAL == 1
CAT_THERMAL == 2
CAT_GAS == 4
CAT_PRESSURE == 8
CAT_SWELLING == 16

NUM_MODULES == 8
GROUPS_PER_MODULE == 13
CELLS_PER_GROUP == 8

INPUT_SYNC_BYTE == 187
INPUT_TYPE_PACK == 1
INPUT_TYPE_MODULE == 2
INPUT_PACK_FRAME_SIZE == 30
INPUT_MODULE_FRAME_SIZE == 24
INPUT_RX_BUF_SIZE == 64
\* sizeof(input_pack_frame_t) and sizeof(input_module_frame_t): both
\* structs are packed and add up to 25 bytes.
SIZEOF_INPUT_PACK_FRAME == 25
SIZEOF_INPUT_MODULE_FRAME == 25
ALL_MODULES_MASK == 255

PACKET_SYNC_BYTE == 170
PACKET_TYPE_PACK == 1
PACKET_PACK_SIZE == 38
NUM_CASCADE_THRESHOLDS == 6

UINT16_MOD == 65536

\* Defaults written by correlation_engine_init.
INIT_CRITICAL_LIMIT == 20
INIT_DEESCALATION_LIMIT == 10
INIT_RECOVERY_LIMIT == 10

\* ------------------------------------------------------------------------
\* Bounds of the model
\* ------------------------------------------------------------------------

\* SpecRx: frames and pieces of noise the sender starts, and how many of
\* its last items may be something else than a frame of the cycle still
\* missing.
RxItems == 10
RxTail == 4

\* Scheduler time explored by Spec (ms of g_uptime_ms).
HorizonMs == 2000
\* Spec: the sensed data may change class at every tick before this time.
DataWindowMs == 200
\* Spec: complete external (digital twin) cycles may arrive before this time.
ExtWindowMs == 100
\* The same for SpecHold, which follows the CRITICAL hold to its end.
HoldHorizonMs == 10600
HoldWindowMs == 600
HoldExtWindowMs == 0
\* Scheduler time explored by SpecBoot.
BootHorizonMs == 30
\* SpecRestart: complete external cycles may arrive from RestartExtFromMs
\* up to the restart; after the restart the loop is followed up to
\* RestartHorizonMs.
RestartExtFromMs == 214900
RestartHorizonMs == 3000
\* SpecTrip: the sensed data may change class at every tick before this
\* time.
TripWindowMs == 20

\* ------------------------------------------------------------------------
\* State
\* ------------------------------------------------------------------------

VARIABLES
  g_corr,                  \* correlation_engine_t
  g_anomaly,               \* last anomaly_result_t (active_count and flags)
  g_snapshot,              \* sensor_snapshot_t, reduced to what the evaluator
                           \* and the fast loop decide on
  g_uptime_ms,
  g_fast_loop_ms, g_med_loop_ms, g_slow_loop_ms,
  g_next_fast_ms, g_next_med_ms, g_next_slow_ms,
  g_external_input_active, g_last_external_ms,
  g_thresholds,            \* anomaly_thresholds_t
  g_input_rx,              \* input_rx_state_t
  link,                    \* the inbound byte stream and what the last
                           \* input_rx_feed call returned
  tx,                      \* the telemetry frame last encoded and what
                           \* packet_validate_pack returned on it
  g_safety_armed,          \* hal_gpio.c gate of the relay connect path
  relay,                   \* level of GPIO_PIN_RELAY (HIGH = disconnected)
  leds,                    \* last status level handed to the LED driver
  pc,                      \* position inside one pass of the main loop
  env,                     \* the data the sensors / the twin deliver now
  call,                    \* observer: the last engine call
  run,                     \* observer: the current run of like results
  watch                    \* observer: scheduler timing measurements

engineVars == <<g_corr, call, run>>
schedVars == <<g_anomaly, g_snapshot, g_uptime_ms, g_fast_loop_ms,
               g_med_loop_ms, g_slow_loop_ms, g_next_fast_ms, g_next_med_ms,
               g_next_slow_ms, g_external_input_active, g_last_external_ms,
               g_safety_armed, g_thresholds, g_input_rx, link, tx, relay,
               leds, pc, env, watch>>
vars == <<g_corr, call, run, g_anomaly, g_snapshot, g_uptime_ms,
          g_fast_loop_ms, g_med_loop_ms, g_slow_loop_ms, g_next_fast_ms,
          g_next_med_ms, g_next_slow_ms, g_external_input_active,
          g_last_external_ms, g_safety_armed, g_thresholds, g_input_rx, link,
          tx, relay, leds, pc, env, watch>>

\* ------------------------------------------------------------------------
\* Correlation engine (correlation_engine.c)
\* ------------------------------------------------------------------------

\* The statistics counters (total/warning/critical/emergency evaluations) and
\* the four pass-through fields are write-only for the engine and left out.
correlation_engine_init ==
  [ current_state |-> STATE_NORMAL,
    critical_countdown |-> 0,
    critical_countdown_limit |-> INIT_CRITICAL_LIMIT,
    deescalation_counter |-> 0,
    deescalation_limit |-> INIT_DEESCALATION_LIMIT,
    emergency_latched |-> FALSE,
    emergency_recovery_counter |-> 0,
    emergency_recovery_limit |-> INIT_RECOVERY_LIMIT ]

correlation_engine_reset == correlation_engine_init

\* uint16_t increment.
Inc16(x) == (x + 1) % UINT16_MOD

\* Fault variant: the immediate branches enter EMERGENCY without latching.
LatchEmergencyUnlatched(e) ==
  [ engine |-> [e EXCEPT !.current_state = STATE_EMERGENCY,
                         !.emergency_recovery_counter = 0],
    ret |-> STATE_EMERGENCY ]

\* The three immediate-EMERGENCY branches (lines 100-125) all do the same.
LatchEmergency(e) ==
  [ engine |-> [e EXCEPT !.current_state = STATE_EMERGENCY,
                         !.emergency_latched = TRUE,
                         !.emergency_recovery_counter = 0],
    ret |-> STATE_EMERGENCY ]

\* Fault variant: an anomalous update leaves the recovery counter running.
UpdateLatchedKeepsCount(e, a) ==
  IF a.is_short_circuit \/ a.is_emergency_direct \/ a.active_count > 0
  THEN [ engine |-> e, ret |-> STATE_EMERGENCY ]
  ELSE LET n == Inc16(e.emergency_recovery_counter) IN
       IF n >= e.emergency_recovery_limit
       THEN [ engine |-> [e EXCEPT !.emergency_latched = FALSE,
                                   !.emergency_recovery_counter = 0,
                                   !.current_state = STATE_NORMAL,
                                   !.deescalation_counter = 0,
                                   !.critical_countdown = 0],
              ret |-> STATE_NORMAL ]
       ELSE [ engine |-> [e EXCEPT !.emergency_recovery_counter = n],
              ret |-> STATE_EMERGENCY ]

\* Fault variant: a single active category counts as nominal for recovery.
UpdateLatchedLax(e, a) ==
  IF a.is_short_circuit \/ a.is_emergency_direct \/ a.active_count > 1
  THEN [ engine |-> [e EXCEPT !.emergency_recovery_counter = 0],
         ret |-> STATE_EMERGENCY ]
  ELSE LET n == Inc16(e.emergency_recovery_counter) IN
       IF n >= e.emergency_recovery_limit
       THEN [ engine |-> [e EXCEPT !.emergency_latched = FALSE,
                                   !.emergency_recovery_counter = 0,
                                   !.current_state = STATE_NORMAL,
                                   !.deescalation_counter = 0,
                                   !.critical_countdown = 0],
              ret |-> STATE_NORMAL ]
       ELSE [ engine |-> [e EXCEPT !.emergency_recovery_counter = n],
              ret |-> STATE_EMERGENCY ]

\* Fault variant: the latch is released one nominal update early.
UpdateLatchedEarly(e, a) ==
  IF a.is_short_circuit \/ a.is_emergency_direct \/ a.active_count > 0
  THEN [ engine |-> [e EXCEPT !.emergency_recovery_counter = 0],
         ret |-> STATE_EMERGENCY ]
  ELSE LET n == Inc16(e.emergency_recovery_counter) IN
       IF n + 1 >= e.emergency_recovery_limit
       THEN [ engine |-> [e EXCEPT !.emergency_latched = FALSE,
                                   !.emergency_recovery_counter = 0,
                                   !.current_state = STATE_NORMAL,
                                   !.deescalation_counter = 0,
                                   !.critical_countdown = 0],
              ret |-> STATE_NORMAL ]
       ELSE [ engine |-> [e EXCEPT !.emergency_recovery_counter = n],
              ret |-> STATE_EMERGENCY ]

\* Lines 75-95: the engine is latched.
UpdateLatched(e, a) ==
  IF a.is_short_circuit \/ a.is_emergency_direct \/ a.active_count > 0
  THEN [ engine |-> [e EXCEPT !.emergency_recovery_counter = 0],
         ret |-> STATE_EMERGENCY ]
  ELSE LET n == Inc16(e.emergency_recovery_counter) IN
       IF n >= e.emergency_recovery_limit
       THEN [ engine |-> [e EXCEPT !.emergency_latched = FALSE,
                                   !.emergency_recovery_counter = 0,
                                   !.current_state = STATE_NORMAL,
                                   !.deescalation_counter = 0,
                                   !.critical_countdown = 0],
              ret |-> STATE_NORMAL ]
       ELSE [ engine |-> [e EXCEPT !.emergency_recovery_counter = n],
              ret |-> STATE_EMERGENCY ]

\* Fault variant: the countdown must exceed the limit to escalate.
UpdateCriticalStrict(e, a) ==
  LET entered == IF e.current_state # STATE_CRITICAL
                 THEN [e EXCEPT !.current_state = STATE_CRITICAL,
                                !.critical_countdown = 0]
                 ELSE e
      counted == [entered EXCEPT
                    !.critical_countdown = Inc16(entered.critical_countdown),
                    !.deescalation_counter = 0]
  IN IF counted.critical_countdown > counted.critical_countdown_limit
     THEN [ engine |-> [counted EXCEPT !.current_state = STATE_EMERGENCY,
                                       !.emergency_latched = TRUE,
                                       !.emergency_recovery_counter = 0],
            ret |-> STATE_EMERGENCY ]
     ELSE [ engine |-> counted, ret |-> STATE_CRITICAL ]

\* Lines 129-148: two categories.
UpdateCritical(e, a) ==
  LET entered == IF e.current_state # STATE_CRITICAL
                 THEN [e EXCEPT !.current_state = STATE_CRITICAL,
                                !.critical_countdown = 0]
                 ELSE e
      counted == [entered EXCEPT
                    !.critical_countdown = Inc16(entered.critical_countdown),
                    !.deescalation_counter = 0]
  IN IF counted.critical_countdown >= counted.critical_countdown_limit
     THEN [ engine |-> [counted EXCEPT !.current_state = STATE_EMERGENCY,
                                       !.emergency_latched = TRUE,
                                       !.emergency_recovery_counter = 0],
            ret |-> STATE_EMERGENCY ]
     ELSE [ engine |-> counted, ret |-> STATE_CRITICAL ]

\* Fault variant: one category is handled by the two-category branch.
UpdateWarningAsCritical(e, a) == UpdateCritical(e, a)

\* Lines 152-158: one category.
UpdateWarning(e, a) ==
  [ engine |-> [e EXCEPT !.current_state = STATE_WARNING,
                         !.critical_countdown = 0,
                         !.deescalation_counter = 0],
    ret |-> STATE_WARNING ]

\* Fault variant: the de-escalation counter must exceed the limit.
UpdateDeescalateStrict(e, a) ==
  LET stepped ==
        IF e.current_state # STATE_NORMAL
        THEN LET n == Inc16(e.deescalation_counter) IN
             IF n > e.deescalation_limit
             THEN [e EXCEPT !.current_state = STATE_NORMAL,
                            !.deescalation_counter = 0]
             ELSE [e EXCEPT !.deescalation_counter = n]
        ELSE e
      done == [stepped EXCEPT !.critical_countdown = 0]
  IN [ engine |-> done, ret |-> done.current_state ]

\* Lines 162-172: no category.
UpdateDeescalate(e, a) ==
  LET stepped ==
        IF e.current_state # STATE_NORMAL
        THEN LET n == Inc16(e.deescalation_counter) IN
             IF n >= e.deescalation_limit
             THEN [e EXCEPT !.current_state = STATE_NORMAL,
                            !.deescalation_counter = 0]
             ELSE [e EXCEPT !.deescalation_counter = n]
        ELSE e
      done == [stepped EXCEPT !.critical_countdown = 0]
  IN [ engine |-> done, ret |-> done.current_state ]

\* correlation_engine_update: the new engine and the returned state.
correlation_engine_update(e, a) ==
  IF e.emergency_latched THEN UpdateLatched(e, a)
  ELSE IF a.is_short_circuit THEN LatchEmergency(e)
  ELSE IF a.is_emergency_direct THEN LatchEmergency(e)
  ELSE IF a.active_count >= 3 THEN LatchEmergency(e)
  ELSE IF a.active_count >= 2 THEN UpdateCritical(e, a)
  ELSE IF a.active_count = 1 THEN UpdateWarning(e, a)
  ELSE UpdateDeescalate(e, a)

\* ------------------------------------------------------------------------
\* Scheduler helpers (main.c)
\* ------------------------------------------------------------------------

ms_to_cycles(window_ms, period_ms) ==
  IF period_ms = 0 THEN 1
  ELSE LET cycles == (window_ms + period_ms - 1) \div period_ms IN
       IF cycles = 0 THEN 1
       ELSE IF cycles > 65535 THEN 65535
       ELSE cycles

\* Fault variant: the limits are left as correlation_engine_init wrote them.
correlation_sync_timing_limits_Stale(e, med_ms) == e

\* Fault variant: the two windows are exchanged.
correlation_sync_timing_limits_Swapped(e, med_ms) ==
  [e EXCEPT !.critical_countdown_limit =
               ms_to_cycles(DEESCALATION_HOLD_MS, med_ms),
            !.deescalation_limit = ms_to_cycles(CRITICAL_HOLD_MS, med_ms)]

correlation_sync_timing_limits(e, med_ms) ==
  [e EXCEPT !.critical_countdown_limit = ms_to_cycles(CRITICAL_HOLD_MS, med_ms),
            !.deescalation_limit = ms_to_cycles(DEESCALATION_HOLD_MS, med_ms)]

\* ------------------------------------------------------------------------
\* What the evaluator hands to the engine (anomaly_eval.c)
\* ------------------------------------------------------------------------

\* anomaly_result_t reduced to the three fields the engine reads.  Every rule
\* of anomaly_eval_run that raises is_short_circuit or is_emergency_direct
\* also sets a category bit (lines 269-278, 331-334), so a raised flag comes
\* with active_count >= 1.
Results ==
  { a \in [ active_count : 0..CAT_COUNT,
            is_short_circuit : BOOLEAN,
            is_emergency_direct : BOOLEAN ] :
      (a.is_short_circuit \/ a.is_emergency_direct) => a.active_count >= 1 }

\* memset(&g_anomaly, 0, sizeof(g_anomaly))
ZeroResult ==
  [ active_count |-> 0, is_short_circuit |-> FALSE,
    is_emergency_direct |-> FALSE ]

\* ------------------------------------------------------------------------
\* Observers
\* ------------------------------------------------------------------------

Nominal(a) ==
  a.active_count = 0 /\ ~a.is_short_circuit /\ ~a.is_emergency_direct

Flagged(a) == a.is_short_circuit \/ a.is_emergency_direct

ClassOf(a) ==
  IF Flagged(a) \/ a.active_count >= 3 THEN "emerg"
  ELSE IF a.active_count = 2 THEN "two"
  ELSE IF a.active_count = 1 THEN "one"
  ELSE "nominal"

\* Longest run length the observer distinguishes (it saturates there).
RunCap == 102

NoCall(op) ==
  [ op |-> op, r |-> ZeroResult, ret |-> STATE_NORMAL,
    prev |-> correlation_engine_init ]

NoRun ==
  [ class |-> "none", len |-> 0, start_state |-> STATE_NORMAL,
    start_latched |-> FALSE, only_single |-> TRUE ]

\* The engine times runs of nominal and of two-category results only.
Timed(c) == c \in {"nominal", "two"}

\* The run of consecutive updates of one class that update a extends or
\* starts, e being the engine the update found.  The length is counted for
\* the timed classes and saturates at RunCap.
RunAfter(rn, e, a) ==
  LET single == rn.only_single /\ ClassOf(a) \in {"nominal", "one"} IN
  IF rn.class = ClassOf(a)
  THEN [rn EXCEPT !.len = IF Timed(rn.class) /\ rn.len < RunCap
                          THEN rn.len + 1 ELSE rn.len,
                  !.only_single = single]
  ELSE [ class |-> ClassOf(a), len |-> 1,
         start_state |-> e.current_state,
         start_latched |-> e.emergency_latched,
         only_single |-> single ]

CallOf(e, a, by) ==
  [ op |-> by, r |-> a, ret |-> correlation_engine_update(e, a).ret,
    prev |-> e ]

\* ------------------------------------------------------------------------
\* Snapshot and evaluator, reduced to their classes
\* ------------------------------------------------------------------------

\* The raw channels of one sample, by what the rules of anomaly_eval_run and
\* the fast loop make of them:
\*   cur      class of |pack_current_a|: 0 up to current_warning_a (180 A),
\*            1 up to current_short_a (350 A, the literal of fast_loop too),
\*            2 up to current_emergency_a (500 A), 3 above
\*   elec     an ELECTRICAL rule other than the current rules fires
\*   nonelec  how many of THERMAL, GAS, PRESSURE, SWELLING fire
\*   hot      a thermal physics limit is exceeded (it sets THERMAL as well)
Nom    == [cur |-> 0, elec |-> FALSE, nonelec |-> 0, hot |-> FALSE]
One    == [cur |-> 0, elec |-> FALSE, nonelec |-> 1, hot |-> FALSE]
Two    == [cur |-> 0, elec |-> FALSE, nonelec |-> 2, hot |-> FALSE]
Three  == [cur |-> 0, elec |-> FALSE, nonelec |-> 3, hot |-> FALSE]
Over   == [cur |-> 2, elec |-> FALSE, nonelec |-> 0, hot |-> FALSE]
Direct == [cur |-> 0, elec |-> FALSE, nonelec |-> 1, hot |-> TRUE]

SensedData == {Nom, One, Two, Three, Over, Direct}
HoldData == {Nom, One, Two}

\* sim_inject_data / apply_external_input: the raw channels are overwritten
\* and short_circuit is cleared (the simulation raises it only together with
\* a 400 A current, which the evaluator and the fast loop flag anyway).
LoadSnapshot(d) ==
  [ cur |-> d.cur, elec |-> d.elec, nonelec |-> d.nonelec, hot |-> d.hot,
    short_circuit |-> FALSE ]

\* memset(&g_snapshot, 0, sizeof(g_snapshot))
ZeroSnapshot == LoadSnapshot(Nom)

\* anomaly_eval_compute followed by anomaly_eval_run.
anomaly_eval_run(s) ==
  LET short == s.short_circuit \/ s.cur >= 2
      direct == s.cur >= 3 \/ s.hot
      electrical == s.elec \/ s.cur >= 1 \/ short
  IN [ active_count |-> s.nonelec + (IF electrical THEN 1 ELSE 0),
       is_short_circuit |-> short,
       is_emergency_direct |-> direct ]

\* ------------------------------------------------------------------------
\* Relay gate (hal_gpio.c, target build)
\* ------------------------------------------------------------------------

\* Fault variant: the disconnect path drives the connect level.
hal_gpio_relay_disconnect_Low == GPIO_LOW

hal_gpio_relay_disconnect == GPIO_HIGH

\* Fault variant: the connect path ignores the safety gate.
hal_gpio_relay_connect_Ungated(armed, level) == GPIO_LOW

hal_gpio_relay_connect(armed, level) ==
  IF ~armed THEN level ELSE GPIO_LOW

\* ------------------------------------------------------------------------
\* Self-check (main.c)
\* ------------------------------------------------------------------------

\* anomaly_eval_init: the thresholds the self-check and the evaluator read,
\* in hundredths of their unit (the two *_mv thresholds in millivolts).
anomaly_eval_init ==
  [ temp_warning_c |-> 5500, temp_critical_c |-> 6500,
    temp_emergency_c |-> 8000,
    gas_warning_ratio |-> 70, gas_critical_ratio |-> 40,
    pressure_warning_hpa |-> 200, pressure_critical_hpa |-> 500,
    current_warning_a |-> 18000, current_short_a |-> 35000,
    current_emergency_a |-> 50000,
    voltage_low_v |-> 26000, voltage_high_v |-> 38000,
    group_v_deviation_mv |-> 15, v_spread_warn_mv |-> 50,
    r_int_warning_mohm |-> 55,
    dt_dt_warning |-> 50, dt_dt_emergency |-> 500,
    inter_module_dt_warn_c |-> 500, intra_module_dt_warn_c |-> 300,
    delta_t_ambient_warning |-> 2000,
    swelling_warning_pct |-> 300 ]

\* The ordering test of startup_self_check; the frame-size test and the
\* encode/validate probe precede and follow it.
startup_self_check(t) ==
  /\ t.temp_warning_c < t.temp_critical_c
  /\ t.gas_warning_ratio > t.gas_critical_ratio
  /\ t.pressure_warning_hpa < t.pressure_critical_hpa
  /\ t.current_warning_a < t.current_short_a

\* ------------------------------------------------------------------------
\* Anomaly evaluator, channel by channel (anomaly_eval.c)
\* ------------------------------------------------------------------------

\* Channels are integers: temperatures, currents, the pack voltage, R_int,
\* dT/dt, gas ratios, pressures and swelling in hundredths of their unit,
\* group voltages in millivolts.  -999.0f, the start value of the maxima
\* and the value a shorted NTC reads, is SENTINEL_C; 999.0f is the start
\* value of the minima.
SENTINEL_C == -99900
T_MIN_START == 99900
V_MIN_START == 999000

Modules == 1..NUM_MODULES
Groups == 1..GROUPS_PER_MODULE

SetMax(S) == CHOOSE x \in S : \A y \in S : y <= x
SetMin(S) == CHOOSE x \in S : \A y \in S : x <= y
Abs(x) == IF x < 0 THEN -x ELSE x

RECURSIVE SumGroups(_, _)
SumGroups(v, n) == IF n = 0 THEN 0 ELSE v[n] + SumGroups(v, n - 1)

\* make_normal_snapshot of the unit tests: every channel safe, the derived
\* fields still zero.  Module m of the model is modules[m - 1].
NormalSnapshot ==
  [ pack_voltage_v |-> 33280, pack_current_a |-> 6000,
    r_internal_mohm |-> 44,
    modules |->
      [m \in Modules |->
         [ ntc1_c |-> 2800 + 30 * (m - 1), ntc2_c |-> 2820 + 30 * (m - 1),
           swelling_pct |-> 50, max_dt_dt |-> 1,
           group_voltages_v |-> [g \in Groups |-> 3200],
           module_voltage |-> 0, v_spread_mv |-> 0, delta_t_intra |-> 0 ]],
    temp_ambient_c |-> 2500,
    coolant_inlet_c |-> 2500, coolant_outlet_c |-> 2700,
    gas_ratio_1 |-> 98, gas_ratio_2 |-> 97,
    pressure_delta_1_hpa |-> 10, pressure_delta_2_hpa |-> 10,
    short_circuit |-> FALSE,
    v_spread_mv |-> 0, temp_spread_c |-> 0, dt_dt_max |-> 0,
    hotspot_module |-> 0, hotspot_temp_c |-> 0, t_core_est_c |-> 0,
    coolant_delta_t |-> 0 ]

\* Lines 201-204: I_cell^2 * R_int * R_thermal in hundredths of a degree,
\* for a pack current in hundredths of an ampere and R_int in hundredths of
\* a milliohm; the quotients are rounded down.
CoreDelta(pack_current_a, r_internal_mohm) ==
  LET i_cell == Abs(pack_current_a) \div CELLS_PER_GROUP
  IN (((i_cell * i_cell) \div 100) * (r_internal_mohm * 3)) \div 100000

\* The stage boundaries in hundredths of a degree.
CASCADE_THRESHOLDS == <<6000, 8000, 12000, 15000, 20000, 30000>>

\* Fault variant: a temperature on a boundary belongs to the upper stage.
get_cascade_stage_Inclusive(core_temp_c) ==
  IF \E i \in 1..NUM_CASCADE_THRESHOLDS : core_temp_c < CASCADE_THRESHOLDS[i]
  THEN SetMin({i \in 1..NUM_CASCADE_THRESHOLDS :
                 core_temp_c < CASCADE_THRESHOLDS[i]}) - 1
  ELSE NUM_CASCADE_THRESHOLDS

\* The index (from 0) of the first boundary the temperature does not exceed.
get_cascade_stage(core_temp_c) ==
  IF \E i \in 1..NUM_CASCADE_THRESHOLDS : core_temp_c <= CASCADE_THRESHOLDS[i]
  THEN SetMin({i \in 1..NUM_CASCADE_THRESHOLDS :
                 core_temp_c <= CASCADE_THRESHOLDS[i]}) - 1
  ELSE NUM_CASCADE_THRESHOLDS

\* anomaly_eval_compute: the derived fields of a snapshot.  mean_group_v is
\* kept as module_voltage / GROUPS_PER_MODULE.
anomaly_eval_compute(s) ==
  LET ModMax(m) == IF s.modules[m].ntc1_c > s.modules[m].ntc2_c
                   THEN s.modules[m].ntc1_c ELSE s.modules[m].ntc2_c
      Ntcs == {s.modules[m].ntc1_c : m \in Modules}
                \cup {s.modules[m].ntc2_c : m \in Modules}
      Volts == {s.modules[m].group_voltages_v[g] : m \in Modules, g \in Groups}
      global_v_min == SetMin({V_MIN_START} \cup Volts)
      global_v_max == SetMax({0} \cup Volts)
      global_t_min == SetMin({T_MIN_START} \cup Ntcs)
      global_t_max == SetMax({SENTINEL_C} \cup Ntcs)
      max_temp == SetMax({SENTINEL_C} \cup {ModMax(m) : m \in Modules})
      hot_module == IF max_temp > SENTINEL_C
                    THEN SetMin({m \in Modules : ModMax(m) = max_temp})
                    ELSE 0
      max_dt_dt == SetMax({0} \cup {s.modules[m].max_dt_dt : m \in Modules})
      Derived(mod) ==
        LET vs == {mod.group_voltages_v[g] : g \in Groups}
        IN [mod EXCEPT
              !.module_voltage = SumGroups(mod.group_voltages_v,
                                           GROUPS_PER_MODULE),
              !.v_spread_mv = SetMax({0} \cup vs)
                                - SetMin({V_MIN_START} \cup vs),
              !.delta_t_intra = Abs(mod.ntc1_c - mod.ntc2_c)]
  IN [s EXCEPT !.modules = [m \in Modules |-> Derived(s.modules[m])],
               !.v_spread_mv = global_v_max - global_v_min,
               !.temp_spread_c = global_t_max - global_t_min,
               !.dt_dt_max = max_dt_dt,
               !.hotspot_module = hot_module,
               !.hotspot_temp_c = max_temp,
               !.t_core_est_c = max_temp + CoreDelta(s.pack_current_a,
                                                     s.r_internal_mohm),
               !.coolant_delta_t = s.coolant_outlet_c - s.coolant_inlet_c]

\* mask & bit, for a bit that is a power of two.
HasBit(mask, bit) == (mask \div bit) % 2 = 1

RECURSIVE anomaly_count_categories(_)
anomaly_count_categories(mask) ==
  IF mask = 0 THEN 0
  ELSE (mask % 2) + anomaly_count_categories(mask \div 2)

\* Lines 260-262.
AbsCurrent(s) == Abs(s.pack_current_a)

\* Lines 290-305: the hottest NTC of the pack.
max_ntc(s) ==
  SetMax({SENTINEL_C} \cup {s.modules[m].ntc1_c : m \in Modules}
                      \cup {s.modules[m].ntc2_c : m \in Modules})

\* Lines 245-257: group g of module m deviates from the module mean by more
\* than the threshold; both sides are multiplied by GROUPS_PER_MODULE.
GroupDeviates(t, s, m, g) ==
  Abs(GROUPS_PER_MODULE * s.modules[m].group_voltages_v[g]
        - s.modules[m].module_voltage)
    > GROUPS_PER_MODULE * t.group_v_deviation_mv

\* Fault variant: the ambient-compensated rule needs a strictly larger
\* difference.
AmbientRuleStrict(t, s) ==
  max_ntc(s) - s.temp_ambient_c > t.delta_t_ambient_warning

\* Lines 320-323.
AmbientRule(t, s) ==
  max_ntc(s) - s.temp_ambient_c >= t.delta_t_ambient_warning

\* risk_factor is counted in parts of RISK_ONE (1.0f), the common
\* denominator of the four contributions on channels in hundredths.
RISK_ONE == 120000

\* Fault variant: the sum is not limited.
ClampRiskOff(risk) == risk

\* if (risk > 1.0f) risk = 1.0f
ClampRisk(risk) == IF risk > RISK_ONE THEN RISK_ONE ELSE risk

\* Lines 368-399: the risk factor from the core temperature, dT/dt, the
\* worst gas ratio and the worst pressure delta.
RiskFactor(s, worst_gas, worst_pressure) ==
  LET r1 == IF s.t_core_est_c > 6000
            THEN ClampRisk(5 * (s.t_core_est_c - 6000)) ELSE 0
      r2 == IF s.dt_dt_max > 10
            THEN ClampRisk(r1 + 60 * s.dt_dt_max) ELSE r1
      r3 == IF worst_gas < 80
            THEN ClampRisk(r2 + 600 * (80 - worst_gas)) ELSE r2
  IN IF worst_pressure > 100
     THEN ClampRisk(r3 + 24 * worst_pressure) ELSE r3

\* anomaly_eval_run: the category mask, the two flags, the modules at fault,
\* the cascade stage, the risk factor and the category count.
anomaly_eval_run_channels(t, s) ==
  LET abs_current == AbsCurrent(s)
      short == s.short_circuit \/ abs_current > t.current_short_a
      spike == abs_current > t.current_emergency_a
      dev_modules == {m \in Modules : \E g \in Groups : GroupDeviates(t, s, m, g)}
      electrical ==
        \/ s.pack_voltage_v < t.voltage_low_v
        \/ s.pack_voltage_v > t.voltage_high_v
        \/ s.v_spread_mv > t.v_spread_warn_mv
        \/ dev_modules # {}
        \/ abs_current > t.current_warning_a
        \/ short
        \/ spike
        \/ s.r_internal_mohm > t.r_int_warning_mohm
      hot_modules == {m \in Modules : \/ s.modules[m].ntc1_c > t.temp_warning_c
                                      \/ s.modules[m].ntc2_c > t.temp_warning_c}
      intra_modules == {m \in Modules :
                          s.modules[m].delta_t_intra > t.intra_module_dt_warn_c}
      physics == \/ max_ntc(s) > t.temp_emergency_c
                 \/ s.dt_dt_max > t.dt_dt_emergency
      thermal ==
        \/ hot_modules # {}
        \/ intra_modules # {}
        \/ s.temp_spread_c > t.inter_module_dt_warn_c
        \/ AmbientRule(t, s)
        \/ s.dt_dt_max > t.dt_dt_warning
        \/ physics
      worst_gas == IF s.gas_ratio_1 < s.gas_ratio_2
                   THEN s.gas_ratio_1 ELSE s.gas_ratio_2
      worst_pressure == IF s.pressure_delta_1_hpa > s.pressure_delta_2_hpa
                        THEN s.pressure_delta_1_hpa
                        ELSE s.pressure_delta_2_hpa
      swollen == {m \in Modules :
                    s.modules[m].swelling_pct > t.swelling_warning_pct}
      mask == (IF electrical THEN CAT_ELECTRICAL ELSE 0)
              + (IF thermal THEN CAT_THERMAL ELSE 0)
              + (IF worst_gas < t.gas_warning_ratio THEN CAT_GAS ELSE 0)
              + (IF worst_pressure > t.pressure_warning_hpa
                 THEN CAT_PRESSURE ELSE 0)
              + (IF swollen # {} THEN CAT_SWELLING ELSE 0)
  IN [ active_mask |-> mask,
       active_count |-> anomaly_count_categories(mask),
       is_short_circuit |-> short,
       is_emergency_direct |-> spike \/ physics,
       hotspot_module |-> s.hotspot_module,
       cascade_stage |-> get_cascade_stage(s.t_core_est_c),
       risk_factor |-> RiskFactor(s, worst_gas, worst_pressure),
       anomaly_modules |-> dev_modules \cup hot_modules \cup intra_modules
                             \cup swollen ]

\* ------------------------------------------------------------------------
\* Bytes
\* ------------------------------------------------------------------------

\* Bit k of a byte.
BitOf(a, k) == (a \div (2 ^ k)) % 2

\* a ^ b on uint8_t.
Xor(a, b) ==
  LET x(k) == ((BitOf(a, k) + BitOf(b, k)) % 2) * (2 ^ k)
  IN x(0) + x(1) + x(2) + x(3) + x(4) + x(5) + x(6) + x(7)

\* Little-endian fields of a packed struct.
U16At(f, i) == f[i] + 256 * f[i + 1]
S16At(f, i) == IF U16At(f, i) >= 32768 THEN U16At(f, i) - 65536
               ELSE U16At(f, i)
S8At(f, i) == IF f[i] >= 128 THEN f[i] - 256 ELSE f[i]

Lo(x) == x % 256
Hi(x) == (x \div 256) % 256
\* XOR of data[lo .. hi - 1]; the order in which the bytes are folded does
\* not change the result, and folding by halves keeps the evaluation
\* shallow.
RECURSIVE XorRange(_, _, _)
XorRange(data, lo, hi) ==
  IF hi <= lo THEN 0
  ELSE IF hi = lo + 1 THEN data[lo]
  ELSE LET mid == (lo + hi) \div 2
       IN Xor(XorRange(data, lo, mid), XorRange(data, mid, hi))

\* The two bytes of an int16_t / uint16_t field.
Le16(x) == LET u == IF x < 0 THEN x + 65536 ELSE x IN <<Lo(u), Hi(u)>>

\* An array of n zero bytes (memset 0).
ZeroBytes(n) == [i \in 0..(n - 1) |-> 0]

\* ------------------------------------------------------------------------
\* Inbound frame parser (input_packet.c)
\* ------------------------------------------------------------------------

\* XOR of data[0 .. len - 1].
compute_checksum(data, len) == XorRange(data, 0, len)

input_rx_init ==
  [ buf |-> ZeroBytes(INPUT_RX_BUF_SIZE), write_pos |-> 0,
    pack_received |-> 0, modules_received |-> 0,
    last_pack |-> ZeroBytes(SIZEOF_INPUT_PACK_FRAME),
    last_modules |-> [m \in 0..(NUM_MODULES - 1) |->
                        ZeroBytes(SIZEOF_INPUT_MODULE_FRAME)] ]

\* What lies in buf from write_pos on is dead: every byte there is written
\* again before the parser looks at it.  The one exception is the memcpy of
\* a 24-byte module frame into the 25-byte struct, which takes buf[24] into
\* the struct's checksum field, a field nothing reads.  The model holds 0 in
\* the dead bytes.

\* memmove(buf, buf + from, n), write_pos becoming n.
memmove(buf, from, n) ==
  [i \in DOMAIN buf |-> IF i < n THEN buf[i + from] ELSE 0]

\* memcpy(&frame, rx->buf, n)
CopyFrame(buf, n) == [i \in 0..(n - 1) |-> buf[i]]

\* Fault variant: a rejected frame is dropped whole.
SkipSyncWholeFrame(rx) ==
  LET n == IF rx.buf[1] < rx.write_pos THEN rx.buf[1] ELSE rx.write_pos
  IN [rx EXCEPT !.buf = memmove(rx.buf, n, rx.write_pos - n),
                !.write_pos = rx.write_pos - n]

\* Fault variant: a rejected frame stays in the buffer.
SkipSyncOff(rx) == rx

\* memmove(rx->buf, rx->buf + 1, rx->write_pos - 1); rx->write_pos--
SkipSync(rx) ==
  [rx EXCEPT !.buf = memmove(rx.buf, 1, rx.write_pos - 1),
             !.write_pos = rx.write_pos - 1]

\* Fault variant: bytes in front of the sync are kept.
DiscardBeforeSyncOff(rx) == rx

\* Lines 39-52: scan for the sync byte and discard what precedes it.
DiscardBeforeSync(rx) ==
  LET syncs == {i \in 0..(rx.write_pos - 1) : rx.buf[i] = INPUT_SYNC_BYTE}
      start == IF syncs = {} THEN rx.write_pos ELSE SetMin(syncs)
      remaining == rx.write_pos - start
  IN IF start > 0
     THEN [rx EXCEPT !.buf = IF remaining > 0
                             THEN memmove(rx.buf, start, remaining)
                             ELSE ZeroBytes(INPUT_RX_BUF_SIZE),
                     !.write_pos = remaining]
     ELSE rx

\* modules_received |= (1 << index)
SetModuleBit(mask, index) ==
  IF HasBit(mask, 2 ^ index) THEN mask ELSE mask + 2 ^ index

\* Fault variant: the module frames do not count for a complete cycle.
CycleCompleteNoModules(rx) == rx.pack_received # 0

\* rx->pack_received && rx->modules_received == 0xFF
CycleComplete(rx) ==
  rx.pack_received # 0 /\ rx.modules_received = ALL_MODULES_MASK

\* Fault variant: index 8 is taken for a module of the pack.
ModuleIndexInRangeLax(index) == index <= 8

\* mf.module_index < 8
ModuleIndexInRange(index) == index < 8

\* Lines 92-122: store the valid frame at the head of the buffer, consume
\* it and report.
StoreFrame(rx) ==
  LET frame_len == rx.buf[1]
      mf == CopyFrame(rx.buf, SIZEOF_INPUT_MODULE_FRAME)
      stored ==
        IF rx.buf[2] = INPUT_TYPE_PACK
        THEN [rx EXCEPT !.last_pack =
                           CopyFrame(rx.buf, SIZEOF_INPUT_PACK_FRAME),
                        !.pack_received = 1]
        ELSE IF ModuleIndexInRange(mf[3])
             THEN [rx EXCEPT !.last_modules[mf[3]] = mf,
                             !.modules_received = SetModuleBit(@, mf[3])]
             ELSE rx
      remaining == rx.write_pos - frame_len
      consumed ==
        [stored EXCEPT !.buf = IF remaining > 0
                               THEN memmove(rx.buf, frame_len, remaining)
                               ELSE ZeroBytes(INPUT_RX_BUF_SIZE),
                       !.write_pos = remaining]
  IN [rx |-> consumed, result |-> IF CycleComplete(consumed) THEN 2 ELSE 1]

\* try_parse_frame: the receiver state it leaves and the value it returns.
try_parse_frame(rx) ==
  IF rx.write_pos < 3 THEN [rx |-> rx, result |-> 0]
  ELSE
    LET r == DiscardBeforeSync(rx)
        frame_len == r.buf[1]
        frame_type == r.buf[2]
    IN IF r.write_pos < 3 THEN [rx |-> r, result |-> 0]
       ELSE IF frame_type = INPUT_TYPE_PACK
               /\ frame_len # INPUT_PACK_FRAME_SIZE
            THEN [rx |-> SkipSync(r), result |-> 0]
       ELSE IF frame_type = INPUT_TYPE_MODULE
               /\ frame_len # INPUT_MODULE_FRAME_SIZE
            THEN [rx |-> SkipSync(r), result |-> 0]
       ELSE IF frame_type # INPUT_TYPE_PACK /\ frame_type # INPUT_TYPE_MODULE
            THEN [rx |-> SkipSync(r), result |-> 0]
       ELSE IF r.write_pos < frame_len THEN [rx |-> r, result |-> 0]
       ELSE IF r.buf[frame_len - 1] # compute_checksum(r.buf, frame_len - 1)
            THEN [rx |-> SkipSync(r), result |-> 0]
       ELSE StoreFrame(r)

input_rx_feed(rx, byte) ==
  IF rx.write_pos < INPUT_RX_BUF_SIZE
  THEN try_parse_frame([rx EXCEPT !.buf[rx.write_pos] = byte,
                                  !.write_pos = rx.write_pos + 1])
  ELSE [rx |-> [rx EXCEPT !.buf = [ZeroBytes(INPUT_RX_BUF_SIZE)
                                     EXCEPT ![0] = byte],
                          !.write_pos = 1],
        result |-> 0]

input_rx_reset_cycle(rx) ==
  [rx EXCEPT !.pack_received = 0, !.modules_received = 0]

\* apply_external_input (main.c): the stored frames written to the
\* snapshot, in the units of the model (hundredths; group voltages in mV).
\* humidity_pct and isolation_mohm are not part of the model's snapshot.
apply_external_input(snap, rx) ==
  LET pf == rx.last_pack
      Module(old, mf) ==
        [old EXCEPT !.ntc1_c = S16At(mf, 4) * 10,
                    !.ntc2_c = S16At(mf, 6) * 10,
                    !.swelling_pct = mf[8] * 100,
                    !.group_voltages_v =
                       [g \in Groups |-> U16At(mf, 9) + S8At(mf, 10 + g)]]
  IN [snap EXCEPT !.pack_voltage_v = U16At(pf, 3) * 10,
                  !.pack_current_a = S16At(pf, 5) * 10,
                  !.temp_ambient_c = S16At(pf, 7) * 10,
                  !.coolant_inlet_c = S16At(pf, 9) * 10,
                  !.coolant_outlet_c = S16At(pf, 11) * 10,
                  !.gas_ratio_1 = U16At(pf, 13),
                  !.gas_ratio_2 = U16At(pf, 15),
                  !.pressure_delta_1_hpa = S16At(pf, 17),
                  !.pressure_delta_2_hpa = S16At(pf, 19),
                  !.modules = [m \in Modules |->
                                 Module(snap.modules[m],
                                        rx.last_modules[m - 1])],
                  !.r_internal_mohm = 44,
                  !.short_circuit = FALSE]

\* ------------------------------------------------------------------------
\* Telemetry pack frame (packet_format.c)
\* ------------------------------------------------------------------------

\* A frame is the array of its PACKET_PACK_SIZE bytes, the packed struct
\* telemetry_pack_frame_t laid out little-endian:
\*   0 sync, 1 length, 2 frame_type, 3-6 timestamp_ms, 7-8 pack_voltage_dv,
\*   9-10 pack_current_da, 11-12 r_int_cmohm, 13-14 max_temp_dt,
\*   15-16 ambient_temp_dt, 17-18 core_temp_est_dt, 19 dt_dt_max_cdpm,
\*   20 gas_ratio_1_cp, 21 gas_ratio_2_cp, 22-23 pressure_delta_1_chpa,
\*   24-25 pressure_delta_2_chpa, 26-27 v_spread_dmv, 28 temp_spread_dt,
\*   29 system_state, 30 anomaly_mask, 31 anomaly_count, 32 anomaly_modules,
\*   33 hotspot_module, 34 risk_factor_pct, 35 cascade_stage, 36 flags,
\*   37 checksum.
\* The float products of the encoder are taken in the integer units of the
\* model (hundredths; v_spread_mv in mV; risk in parts of RISK_ONE); where
\* a float product falls just short of an integer the byte of the build
\* can be one unit lower than here.

\* Fault variant: the last byte is left out of the checksum.
packet_checksum_Short(data, length) == XorRange(data, 0, length - 1)

\* csum ^= data[i] for i < length.
packet_checksum(data, length) == XorRange(data, 0, length)

\* (int16_t)v and the like: the fraction is cut off towards zero.
Trunc(n, d) == IF n >= 0 THEN n \div d ELSE -((-n) \div d)

clamp_i16(v) == IF v > 32767 THEN 32767 ELSE IF v < -32768 THEN -32768 ELSE v
clamp_u8(v) == IF v > 255 THEN 255 ELSE IF v < 0 THEN 0 ELSE v
clamp_u16(v) == IF v > 65535 THEN 65535 ELSE IF v < 0 THEN 0 ELSE v

\* The four bytes of a uint32_t field.
Le32(x) ==
  <<x % 256, (x \div 256) % 256, (x \div 65536) % 256,
    (x \div 16777216) % 256>>

\* anomaly_modules_mask: bit m - 1 for module m.
ModulesMask(ms) ==
  LET bit(m) == IF m \in ms THEN 2 ^ (m - 1) ELSE 0
  IN bit(1) + bit(2) + bit(3) + bit(4) + bit(5) + bit(6) + bit(7) + bit(8)

packet_encode_pack(timestamp_ms, sensors, anomaly, state) ==
  LET fields ==
        <<PACKET_SYNC_BYTE, PACKET_PACK_SIZE, PACKET_TYPE_PACK>>
          \o Le32(timestamp_ms)
          \o Le16(clamp_u16(Trunc(sensors.pack_voltage_v, 10)))
          \o Le16(clamp_i16(Trunc(sensors.pack_current_a, 10)))
          \o Le16(clamp_u16(sensors.r_internal_mohm))
          \o Le16(clamp_i16(Trunc(sensors.hotspot_temp_c, 10)))
          \o Le16(clamp_i16(Trunc(sensors.temp_ambient_c, 10)))
          \o Le16(clamp_i16(Trunc(sensors.t_core_est_c, 10)))
          \o <<clamp_u8(sensors.dt_dt_max),
               clamp_u8(sensors.gas_ratio_1),
               clamp_u8(sensors.gas_ratio_2)>>
          \o Le16(clamp_i16(sensors.pressure_delta_1_hpa))
          \o Le16(clamp_i16(sensors.pressure_delta_2_hpa))
          \o Le16(clamp_u16(sensors.v_spread_mv * 10))
          \o <<clamp_u8(Trunc(sensors.temp_spread_c, 10)),
               state,
               anomaly.active_mask,
               anomaly.active_count,
               ModulesMask(anomaly.anomaly_modules),
               anomaly.hotspot_module,
               clamp_u8(Trunc(anomaly.risk_factor * 100, RISK_ONE)),
               anomaly.cascade_stage,
               IF anomaly.is_emergency_direct THEN 1 ELSE 0>>
      pkt == [i \in 0..(PACKET_PACK_SIZE - 1) |->
                IF i < PACKET_PACK_SIZE - 1 THEN fields[i + 1] ELSE 0]
  IN [pkt EXCEPT ![PACKET_PACK_SIZE - 1] =
                    packet_checksum(pkt, PACKET_PACK_SIZE - 1)]

\* Fault variant: the checksum is not compared.
packet_validate_pack_NoChecksum(pkt) ==
  IF pkt[0] # PACKET_SYNC_BYTE THEN -1
  ELSE IF pkt[1] # PACKET_PACK_SIZE THEN -1
  ELSE 0

packet_validate_pack(pkt) ==
  IF pkt[0] # PACKET_SYNC_BYTE THEN -1
  ELSE IF pkt[1] # PACKET_PACK_SIZE THEN -1
  ELSE IF pkt[PACKET_PACK_SIZE - 1]
            # packet_checksum(pkt, PACKET_PACK_SIZE - 1) THEN -1
  ELSE 0

\* Nothing has been sent to the receiver yet:
\*   wire      the bytes of the current item still to be fed
\*   frame     the current item if it is a valid frame, else << >>
\*   started   frames and pieces of noise the sender has started
\*   clean     only valid frames and filler without a sync byte so far
\*   result    what the last input_rx_feed call returned (-1: no byte of
\*             the current item has been fed yet)
\*   completed that call was given the last byte of a valid frame
\*   disturbed one of them was no frame of the cycle still missing
\*   sent      the slots (module index, 8 for the pack) whose frame was fed
\*             completely since the item whose last byte returned 2
NoLink ==
  [ wire |-> << >>, frame |-> << >>, started |-> 0,
    disturbed |-> FALSE, clean |-> TRUE,
    result |-> -1, completed |-> FALSE, sent |-> {} ]

\* No telemetry frame has been encoded yet:
\*   pkt       the frame as it is held now
\*   emitted   the frame as packet_encode_pack left it
\*   changed   the offset of the byte written since (-1: none)
\*   valid     what packet_validate_pack returned on pkt (1: not called)
NoTx ==
  [ pkt |-> ZeroBytes(PACKET_PACK_SIZE),
    emitted |-> ZeroBytes(PACKET_PACK_SIZE), changed |-> -1, valid |-> 1 ]

\* ------------------------------------------------------------------------
\* Scheduler (main.c)
\* ------------------------------------------------------------------------

\* uint32_t sums of the model stay far below 2^32 (g_uptime_ms is at most
\* SIM_DURATION_S * 1000 + SCHED_TICK_MS, a period at most 5000).
U32(x) == x

\* (uint32_t)(now - last) < limit: a difference below zero wraps to a value
\* of at least 2^32 - 215010, far above any limit.
ElapsedBelow(now, last, limit) == now >= last /\ now - last < limit

\* The six timing globals as one value.
Sched ==
  [ fast_ms |-> g_fast_loop_ms, med_ms |-> g_med_loop_ms,
    slow_ms |-> g_slow_loop_ms, next_fast |-> g_next_fast_ms,
    next_med |-> g_next_med_ms, next_slow |-> g_next_slow_ms ]

SetSched(s) ==
  /\ g_fast_loop_ms' = s.fast_ms
  /\ g_med_loop_ms' = s.med_ms
  /\ g_slow_loop_ms' = s.slow_ms
  /\ g_next_fast_ms' = s.next_fast
  /\ g_next_med_ms' = s.next_med
  /\ g_next_slow_ms' = s.next_slow

scheduler_reset(now) ==
  [ fast_ms |-> FAST_LOOP_NORMAL_MS, med_ms |-> MED_LOOP_NORMAL_MS,
    slow_ms |-> SLOW_LOOP_NORMAL_MS, next_fast |-> now, next_med |-> now,
    next_slow |-> now ]

\* Fault variant: the engine state does not count for alert mode.
scheduler_is_alert_mode_NoState(snap, anomaly, corr) ==
  \/ snap.short_circuit
  \/ anomaly.active_count > 0

scheduler_is_alert_mode(snap, anomaly, corr) ==
  \/ snap.short_circuit
  \/ anomaly.active_count > 0
  \/ corr.current_state # STATE_NORMAL

\* Fault variant: a deadline is never pulled in.
PullInOff(next, now, period) == next

\* Fault variant: every deadline is restarted from now.
PullInRestart(next, now, period) == U32(now + period)

PullIn(next, now, period) ==
  IF next > U32(now + period) THEN U32(now + period) ELSE next

scheduler_apply_sampling_rates(s, now, alert, ext) ==
  LET target_fast == IF alert THEN FAST_LOOP_ALERT_MS ELSE FAST_LOOP_NORMAL_MS
      target_med == IF alert THEN MED_LOOP_ALERT_MS ELSE MED_LOOP_NORMAL_MS
      slow0 == IF alert THEN SLOW_LOOP_ALERT_MS ELSE SLOW_LOOP_NORMAL_MS
      target_slow == IF ext /\ slow0 > SLOW_LOOP_EXTERNAL_MS
                     THEN SLOW_LOOP_EXTERNAL_MS ELSE slow0
  IN [ fast_ms |-> target_fast, med_ms |-> target_med,
       slow_ms |-> target_slow,
       next_fast |-> PullIn(s.next_fast, now, target_fast),
       next_med |-> PullIn(s.next_med, now, target_med),
       next_slow |-> PullIn(s.next_slow, now, target_slow) ]

\* ------------------------------------------------------------------------
\* Scheduler observers
\* ------------------------------------------------------------------------

\* hold_ms    scheduler time since the medium-slot run that entered CRITICAL,
\*            while every evaluation since had exactly two categories and no
\*            flag (-1: no such hold is running)
\* hold_p     the medium period in force when that run started
\* hold_end   the value of hold_ms at the medium-slot run whose countdown
\*            escalated the hold to EMERGENCY (-1: none yet)
\* hold_p_end the medium period in force when the escalating run started
\* oc_ms      scheduler time since |pack_current_a| went above 350 A and
\*            stayed there (-1: it is not above)
\* oc_p       the fast period in force at that tick
\* oc_done    the fast slot has tripped since, and left the engine latched
\*            in EMERGENCY with the EMERGENCY outputs asserted
\* reopened   a contactor-open request found the relay already open
\* opened     a contactor-open request has been issued since boot
\* anom_ms    scheduler time since the last evaluation whose result was not
\*            nominal (-1: none since init / reset)
\* anom_by    the slot that ran it
\* total_evaluations
\*            g_corr.total_evaluations: the updates since init / reset
\* med_runs   medium-slot executions since init / reset
\* fast_trips fast-slot executions above the trip level since init / reset
\* stale      g_snapshot has been overwritten since the evaluator last ran
\* sent_stale a slow-slot run has encoded such a snapshot
\* ext_age    scheduler time since a complete inbound cycle was last
\*            applied (-1: none yet)
\* sim_used   the last acquisition called sim_inject_data
NoWatch ==
  [ hold_ms |-> -1, hold_p |-> 0, hold_end |-> -1, hold_p_end |-> 0,
    oc_ms |-> -1, oc_p |-> 0, oc_done |-> FALSE, reopened |-> FALSE,
    opened |-> FALSE, anom_ms |-> -1, anom_by |-> "none",
    total_evaluations |-> 0, med_runs |-> 0, fast_trips |-> 0,
    stale |-> FALSE, sent_stale |-> FALSE, ext_age |-> -1,
    sim_used |-> FALSE ]

\* oc_ms saturates one tick above the longest fast period.
OcCap == FAST_LOOP_NORMAL_MS + SCHED_TICK_MS

\* anom_ms saturates one medium period above the recovery hold.
AnomCap == (INIT_RECOVERY_LIMIT + 1) * MED_LOOP_ALERT_MS

\* ext_age saturates one tick above the input timeout.
ExtAgeCap == EXTERNAL_INPUT_TIMEOUT_MS + SCHED_TICK_MS

WatchTick(w) ==
  [w EXCEPT !.hold_ms = IF w.hold_ms >= 0 THEN w.hold_ms + SCHED_TICK_MS
                        ELSE -1,
            !.oc_ms = IF w.oc_ms < 0 THEN -1
                      ELSE IF w.oc_ms + SCHED_TICK_MS > OcCap THEN OcCap
                      ELSE w.oc_ms + SCHED_TICK_MS,
            !.anom_ms = IF w.anom_ms < 0 THEN -1
                        ELSE IF w.anom_ms + SCHED_TICK_MS > AnomCap
                        THEN AnomCap
                        ELSE w.anom_ms + SCHED_TICK_MS,
            !.ext_age = IF w.ext_age < 0 THEN -1
                        ELSE IF w.ext_age + SCHED_TICK_MS > ExtAgeCap
                        THEN ExtAgeCap
                        ELSE w.ext_age + SCHED_TICK_MS]

\* After the acquisition: arrived, a complete cycle was applied; kept, the
\* external snapshot stayed in force (sim_inject_data was not called).
WatchAcquire(w, arrived, kept) ==
  [w EXCEPT !.ext_age = IF arrived THEN 0 ELSE @,
            !.sim_used = ~kept,
            !.stale = IF arrived \/ ~kept THEN TRUE ELSE @]

\* After the given slot has run its evaluation; total is
\* g_corr.total_evaluations as the slot left it.
WatchEvaluated(w, slot, total) ==
  [w EXCEPT !.total_evaluations = total,
            !.med_runs = IF slot = "med" THEN @ + 1 ELSE @,
            !.fast_trips = IF slot = "fast" THEN @ + 1 ELSE @,
            !.stale = FALSE]

\* After correlation_engine_reset.
WatchReset(w) ==
  [w EXCEPT !.total_evaluations = 0, !.med_runs = 0, !.fast_trips = 0,
            !.hold_ms = -1, !.hold_p = 0, !.anom_ms = -1,
            !.anom_by = "none"]

WatchCurrent(w, snap, fast_ms) ==
  IF snap.cur >= 2
  THEN IF w.oc_ms < 0
       THEN [w EXCEPT !.oc_ms = 0, !.oc_p = fast_ms, !.oc_done = FALSE]
       ELSE w
  ELSE [w EXCEPT !.oc_ms = -1, !.oc_p = 0, !.oc_done = FALSE]

\* After a medium-slot update: before is the engine the update found (limits
\* already synchronised), after the engine it left, a the result, p the
\* medium period the run started with.
WatchMed(w, before, after, a, p) ==
  IF before.current_state # STATE_CRITICAL
     /\ after.current_state = STATE_CRITICAL
  THEN [w EXCEPT !.hold_ms = 0, !.hold_p = p, !.hold_end = -1,
                 !.hold_p_end = 0]
  ELSE IF w.hold_ms < 0 THEN w
  ELSE IF ClassOf(a) # "two" THEN [w EXCEPT !.hold_ms = -1, !.hold_p = 0]
  ELSE IF after.current_state = STATE_EMERGENCY
       THEN [w EXCEPT !.hold_end = w.hold_ms, !.hold_p_end = p,
                      !.hold_ms = -1]
  ELSE w

\* ------------------------------------------------------------------------
\* Target main loop (main.c, lines 582-714)
\* ------------------------------------------------------------------------

\* The sensed data may change class at any tick inside the data window
\* (before data_until), and a complete inbound cycle may arrive at any tick
\* inside the cycle window (from ext_from up to ext_until).
NextData(e, now) ==
  IF now < e.data_until THEN e.allowed ELSE {e.data}

MayArrive(e, now) == e.ext_from <= now /\ now < e.ext_until

\* main(), from startup_self_check to the initialisation of the NTC history.
Boot ==
  /\ pc = "boot"
  /\ LET passed == startup_self_check(g_thresholds) IN
     /\ g_safety_armed' = passed
     /\ relay' = IF passed THEN hal_gpio_relay_connect(passed, relay)
                 ELSE hal_gpio_relay_disconnect
  /\ leds' = 0
  /\ g_snapshot' = LoadSnapshot(Nom)
  /\ pc' = "acquire"
  /\ UNCHANGED <<g_corr, call, run, g_anomaly, g_uptime_ms, g_fast_loop_ms,
                 g_med_loop_ms, g_slow_loop_ms, g_next_fast_ms, g_next_med_ms,
                 g_next_slow_ms, g_external_input_active, g_last_external_ms,
                 g_thresholds, g_input_rx, link, tx, env, watch>>

\* Lines 661-686: poll the UART for a complete inbound cycle, then keep the
\* external data or fall back to the internal simulation.
Acquire ==
  /\ pc = "acquire"
  /\ \E d \in NextData(env, g_uptime_ms), arrived \in BOOLEAN :
       /\ arrived => MayArrive(env, g_uptime_ms)
       /\ LET active1 == arrived \/ g_external_input_active
              last1 == IF arrived THEN g_uptime_ms ELSE g_last_external_ms
              snap1 == IF arrived THEN LoadSnapshot(d) ELSE g_snapshot
              keep == active1
                      /\ ElapsedBelow(g_uptime_ms, last1, EXTERNAL_INPUT_TIMEOUT_MS)
              snap2 == IF keep THEN snap1 ELSE LoadSnapshot(d)
          IN /\ g_external_input_active' = keep
             /\ g_last_external_ms' = last1
             /\ g_snapshot' = snap2
             /\ watch' = WatchAcquire(
                            WatchCurrent(watch, snap2, g_fast_loop_ms),
                            arrived, keep)
       /\ env' = [env EXCEPT !.data = d]
  /\ pc' = "fast"
  /\ UNCHANGED <<g_corr, call, run, g_anomaly, g_uptime_ms, g_fast_loop_ms,
                 g_med_loop_ms, g_slow_loop_ms, g_next_fast_ms, g_next_med_ms,
                 g_next_slow_ms, g_safety_armed, g_thresholds, g_input_rx,
                 link, tx, relay, leds>>

\* What the slots read and write, as one value.
Sys ==
  [ snapshot |-> g_snapshot, anomaly |-> g_anomaly, corr |-> g_corr,
    sched |-> Sched, relay |-> relay, leds |-> leds, call |-> call,
    reopened |-> watch.reopened, opened |-> watch.opened,
    total_evaluations |-> watch.total_evaluations ]

SetSys(y) ==
  /\ g_snapshot' = y.snapshot
  /\ g_anomaly' = y.anomaly
  /\ g_corr' = y.corr
  /\ SetSched(y.sched)
  /\ relay' = y.relay
  /\ leds' = y.leds
  /\ call' = y.call

\* The EMERGENCY outputs of the target build: LED level and contactor open.
AssertEmergency(y) ==
  [y EXCEPT !.leds = STATE_EMERGENCY,
            !.relay = hal_gpio_relay_disconnect,
            !.reopened = y.reopened \/ y.relay = GPIO_HIGH,
            !.opened = TRUE]

\* Fault variant: the fast slot only raises the flag and leaves evaluation
\* to the next medium slot.
fast_loop_FlagOnly(y, now, ext) ==
  IF y.snapshot.cur >= 2
  THEN [y EXCEPT !.snapshot.short_circuit = TRUE]
  ELSE y

\* fast_loop (lines 421-441), target build.
fast_loop(y, now, ext) ==
  IF y.snapshot.cur >= 2
  THEN LET snap == [y.snapshot EXCEPT !.short_circuit = TRUE]
           a == anomaly_eval_run(snap)
           u == correlation_engine_update(y.corr, a)
           alert == scheduler_is_alert_mode(snap, a, u.engine)
           y1 == [y EXCEPT !.snapshot = snap,
                           !.anomaly = a,
                           !.corr = u.engine,
                           !.total_evaluations = @ + 1,
                           !.call = CallOf(y.corr, a, "fast"),
                           !.sched = scheduler_apply_sampling_rates(
                                       y.sched, now, alert, ext)]
       IN IF u.engine.current_state = STATE_EMERGENCY
          THEN AssertEmergency(y1) ELSE y1
  ELSE y

\* med_loop (lines 446-516), target build.  The dR/dt and dT/dt history only
\* feeds the evaluator, whose outcome is the class of the snapshot.
med_loop(y, now, ext) ==
  LET a == anomaly_eval_run(y.snapshot)
      synced == correlation_sync_timing_limits(y.corr, y.sched.med_ms)
      u == correlation_engine_update(synced, a)
      new_state == u.engine.current_state
      alert == scheduler_is_alert_mode(y.snapshot, a, u.engine)
      y1 == [y EXCEPT !.anomaly = a,
                      !.corr = u.engine,
                      !.total_evaluations = @ + 1,
                      !.call = CallOf(synced, a, "med"),
                      !.leds = new_state]
      y2 == IF new_state = STATE_EMERGENCY
            THEN [y1 EXCEPT !.relay = hal_gpio_relay_disconnect,
                            !.reopened = y1.reopened \/ y1.relay = GPIO_HIGH,
                            !.opened = TRUE]
            ELSE y1
  IN [y2 EXCEPT !.sched = scheduler_apply_sampling_rates(
                            y2.sched, now, alert, ext)]

\* Lines 689-692.
RunFast ==
  /\ pc = "fast"
  /\ IF g_uptime_ms >= g_next_fast_ms
     THEN LET y == fast_loop(Sys, g_uptime_ms, g_external_input_active)
              y1 == [y EXCEPT !.sched.next_fast =
                                 U32(g_uptime_ms + y.sched.fast_ms)]
              tripped == g_snapshot.cur >= 2
          IN /\ SetSys(y1)
             /\ watch' =
                  [(IF tripped
                    THEN WatchEvaluated(watch, "fast", y1.total_evaluations)
                    ELSE watch) EXCEPT
                     !.reopened = y1.reopened,
                     !.opened = y1.opened,
                     !.anom_ms = IF tripped THEN 0 ELSE @,
                     !.anom_by = IF tripped THEN "fast" ELSE @,
                     !.hold_ms = IF tripped THEN -1 ELSE @,
                     !.oc_done =
                        IF tripped
                        THEN /\ y1.snapshot.short_circuit
                             /\ y1.corr.current_state = STATE_EMERGENCY
                             /\ y1.corr.emergency_latched
                             /\ y1.relay = GPIO_HIGH
                             /\ y1.leds = STATE_EMERGENCY
                        ELSE @]
     ELSE UNCHANGED <<g_snapshot, g_anomaly, g_corr, g_fast_loop_ms,
                      g_med_loop_ms, g_slow_loop_ms, g_next_fast_ms,
                      g_next_med_ms, g_next_slow_ms, relay, leds, call,
                      watch>>
  /\ pc' = "med"
  /\ UNCHANGED <<run, g_uptime_ms, g_external_input_active,
                 g_last_external_ms, g_safety_armed, g_thresholds, g_input_rx,
                 link, tx, env>>

\* Lines 693-696.
RunMed ==
  /\ pc = "med"
  /\ IF g_uptime_ms >= g_next_med_ms
     THEN LET y == med_loop(Sys, g_uptime_ms, g_external_input_active)
              y1 == [y EXCEPT !.sched.next_med =
                                 U32(g_uptime_ms + y.sched.med_ms)]
          IN /\ SetSys(y1)
             /\ watch' =
                  [WatchMed(WatchEvaluated(watch, "med",
                                           y1.total_evaluations),
                            y1.call.prev, y1.corr, y1.anomaly, g_med_loop_ms)
                     EXCEPT !.reopened = y1.reopened,
                            !.opened = y1.opened,
                            !.anom_ms = IF ClassOf(y1.anomaly) # "nominal"
                                        THEN 0 ELSE @,
                            !.anom_by = IF ClassOf(y1.anomaly) # "nominal"
                                        THEN "med" ELSE @]
     ELSE UNCHANGED <<g_snapshot, g_anomaly, g_corr, g_fast_loop_ms,
                      g_med_loop_ms, g_slow_loop_ms, g_next_fast_ms,
                      g_next_med_ms, g_next_slow_ms, relay, leds, call,
                      watch>>
  /\ pc' = "slow"
  /\ UNCHANGED <<run, g_uptime_ms, g_external_input_active,
                 g_last_external_ms, g_safety_armed, g_thresholds, g_input_rx,
                 link, tx, env>>

\* Lines 697-700: slow_loop encodes and sends the telemetry frames.
RunSlow ==
  /\ pc = "slow"
  /\ g_next_slow_ms' = IF g_uptime_ms >= g_next_slow_ms
                       THEN U32(g_uptime_ms + g_slow_loop_ms)
                       ELSE g_next_slow_ms
  /\ watch' = IF g_uptime_ms >= g_next_slow_ms
              THEN [watch EXCEPT !.sent_stale = @ \/ watch.stale]
              ELSE watch
  /\ pc' = "advance"
  /\ UNCHANGED <<g_corr, call, run, g_anomaly, g_snapshot, g_uptime_ms,
                 g_fast_loop_ms, g_med_loop_ms, g_slow_loop_ms,
                 g_next_fast_ms, g_next_med_ms, g_external_input_active,
                 g_last_external_ms, g_safety_armed, g_thresholds, g_input_rx,
                 link, tx, relay, leds, env>>

\* Lines 702-710: advance the tick; restart the demo after SIM_DURATION_S.
Advance ==
  /\ pc = "advance"
  /\ g_uptime_ms + SCHED_TICK_MS <= env.horizon
  /\ LET t == U32(g_uptime_ms + SCHED_TICK_MS) IN
     IF t > SIM_DURATION_S * 1000
     THEN /\ g_uptime_ms' = 0
          /\ env' = [env EXCEPT !.horizon = RestartHorizonMs]
          /\ g_corr' = correlation_sync_timing_limits(
                         correlation_engine_reset, MED_LOOP_NORMAL_MS)
          /\ g_anomaly' = ZeroResult
          /\ SetSched(scheduler_reset(0))
          /\ call' = NoCall("reset")
          /\ watch' = WatchReset(WatchTick(watch))
     ELSE /\ g_uptime_ms' = t
          /\ watch' = WatchTick(watch)
          /\ UNCHANGED <<g_corr, g_anomaly, g_fast_loop_ms, g_med_loop_ms,
                         g_slow_loop_ms, g_next_fast_ms, g_next_med_ms,
                         g_next_slow_ms, call, env>>
  /\ pc' = "acquire"
  /\ UNCHANGED <<run, g_snapshot, g_external_input_active, g_last_external_ms,
                 g_safety_armed, g_thresholds, g_input_rx, link, tx, relay,
                 leds>>

\* The state system_init leaves (lines 554-563), t being the record
\* anomaly_eval_init writes.
InitGlobals(med_ms, t) ==
  /\ g_thresholds = t
  /\ g_input_rx = input_rx_init
  /\ link = NoLink
  /\ tx = NoTx
  /\ g_corr = correlation_sync_timing_limits(correlation_engine_init, med_ms)
  /\ g_anomaly = ZeroResult
  /\ g_uptime_ms = 0
  /\ g_fast_loop_ms = FAST_LOOP_NORMAL_MS
  /\ g_med_loop_ms = MED_LOOP_NORMAL_MS
  /\ g_slow_loop_ms = SLOW_LOOP_NORMAL_MS
  /\ g_next_fast_ms = 0
  /\ g_next_med_ms = 0
  /\ g_next_slow_ms = 0
  /\ g_external_input_active = FALSE
  /\ g_last_external_ms = 0
  /\ g_safety_armed = FALSE
  /\ relay = GPIO_HIGH
  /\ leds = -1
  /\ call = NoCall("init")
  /\ run = NoRun
  /\ watch = NoWatch

InitSystemWith(med_ms, t) ==
  /\ InitGlobals(med_ms, t)
  /\ g_snapshot = ZeroSnapshot

InitSystemAt(med_ms) == InitSystemWith(med_ms, anomaly_eval_init)

InitSystem == InitSystemAt(MED_LOOP_NORMAL_MS)

Init ==
  /\ InitSystem
  /\ pc = "boot"
  /\ \E d \in SensedData :
       env = [ data |-> d, allowed |-> SensedData,
               data_until |-> DataWindowMs, ext_from |-> 0,
               ext_until |-> ExtWindowMs,
               horizon |-> HorizonMs ]

Next == Boot \/ Acquire \/ RunFast \/ RunMed \/ RunSlow \/ Advance

Spec == Init /\ [][Next]_vars

\* The same loop, followed through a whole CRITICAL hold: the data stays
\* below the current and physics limits and no external cycle arrives.
InitHold ==
  /\ InitSystem
  /\ pc = "boot"
  /\ \E d \in HoldData :
       env = [ data |-> d, allowed |-> HoldData,
               data_until |-> HoldWindowMs, ext_from |-> 0,
               ext_until |-> HoldExtWindowMs,
               horizon |-> HoldHorizonMs ]

SpecHold == InitHold /\ [][Next]_vars

\* Threshold records as a build may configure them: the defaults of
\* anomaly_eval_init with the critical and emergency tiers, and the current
\* warning, moved so that each ordering rule holds, degenerates to equality
\* or is reversed.
ThresholdRecords ==
  { [anomaly_eval_init EXCEPT !.temp_critical_c = tc,
                              !.temp_emergency_c = te,
                              !.gas_critical_ratio = gc,
                              !.pressure_critical_hpa = pr,
                              !.current_warning_a = cw,
                              !.current_emergency_a = ce] :
      tc \in {6500, 5500, 5000}, te \in {8000, 6500, 6000},
      gc \in {40, 70, 90}, pr \in {500, 200, 100},
      cw \in {18000, 35000, 40000}, ce \in {50000, 35000, 30000} }

\* Data whose class does not depend on the current thresholds.
BootData == {Nom, Three}

\* The start-up of the target build with any of these records, followed for
\* a few ticks of the loop.
InitBoot ==
  /\ \E t \in ThresholdRecords : InitSystemWith(MED_LOOP_NORMAL_MS, t)
  /\ pc = "boot"
  /\ \E d \in BootData :
       env = [ data |-> d, allowed |-> BootData, data_until |-> 0,
               ext_from |-> 0, ext_until |-> 0,
               horizon |-> BootHorizonMs ]

SpecBoot == InitBoot /\ [][Next]_vars

\* The loop on nominal data through the whole demo and its restart, with
\* external cycles arriving during the last ticks before the restart.
InitRestart ==
  /\ InitSystem
  /\ pc = "boot"
  /\ env = [ data |-> Nom, allowed |-> {Nom}, data_until |-> 0,
             ext_from |-> RestartExtFromMs,
             ext_until |-> SIM_DURATION_S * 1000 + SCHED_TICK_MS,
             horizon |-> SIM_DURATION_S * 1000 + SCHED_TICK_MS ]

SpecRestart == InitRestart /\ [][Next]_vars

\* Data that trips the engine from the fast slot or from the medium slot,
\* and nominal data.
TripData == {Nom, Three, Over}

\* The loop through the whole demo and its restart, with data that may trip
\* the engine during the first ticks and then stays as it is, and an
\* external cycle that may arrive at the first tick.
InitTrip ==
  /\ InitSystem
  /\ pc = "boot"
  /\ \E d \in TripData :
       env = [ data |-> d, allowed |-> TripData,
               data_until |-> TripWindowMs, ext_from |-> 0,
               ext_until |-> SCHED_TICK_MS,
               horizon |-> SIM_DURATION_S * 1000 + SCHED_TICK_MS ]

SpecTrip == InitTrip /\ [][Next]_vars

\* ------------------------------------------------------------------------
\* The evaluator on its own
\* ------------------------------------------------------------------------

\* One changed channel of a snapshot: ch names the channel, m the module and
\* g the group where the channel has them, v is the new value (1 for a set
\* short_circuit flag).
Edit(ch, m, g, vals) == {[ch |-> ch, m |-> m, g |-> g, v |-> v] : v \in vals}

ProbeModules == {1, NUM_MODULES}

\* Values on both sides of the default limits, of the stage boundaries and
\* of the risk thresholds, values whose risk contribution alone exceeds 1, and the shorted-NTC
\* reading on one NTC or on all of them.
Edits ==
  Edit("none", 0, 0, {0})
    \cup Edit("pack_voltage_v", 0, 0, {25999, 26000, 38000, 38001})
    \cup Edit("pack_current_a", 0, 0, {0, 18000, 18001, -18001, 35001,
                                       50001})
    \cup Edit("short_circuit", 0, 0, {1})
    \cup Edit("r_internal_mohm", 0, 0, {55, 56})
    \cup Edit("temp_ambient_c", 0, 0, {1000, 1030, 1031})
    \cup Edit("gas_ratio_1", 0, 0, {70, 69, 0})
    \cup Edit("gas_ratio_2", 0, 0, {69})
    \cup Edit("pressure_delta_1_hpa", 0, 0, {100, 101, 200, 201, 6000})
    \cup Edit("pressure_delta_2_hpa", 0, 0, {201})
    \cup Edit("ntc_all", 0, 0, {SENTINEL_C, 3030, 4500})
    \cup Edit("ntc1_c", 1, 0, {6000, 6001, 8000, 12000, 15000, 20000, 30000,
                               30001})
    \cup UNION { Edit("ntc1_c", m, 0, {3100, 3400, 5500, 5501, 8001,
                                        SENTINEL_C})
                   \cup Edit("ntc2_c", m, 0, {5501, SENTINEL_C})
                   \cup Edit("max_dt_dt", m, 0, {10, 11, 50, 51, 501, 2500})
                   \cup Edit("swelling_pct", m, 0, {300, 301})
                   \cup Edit("group_voltage", m, 1, {3216, 3217, 3250, 3251})
                 : m \in ProbeModules }

ApplyEdit(s, e) ==
  CASE e.ch = "none" -> s
    [] e.ch = "pack_voltage_v" -> [s EXCEPT !.pack_voltage_v = e.v]
    [] e.ch = "pack_current_a" -> [s EXCEPT !.pack_current_a = e.v]
    [] e.ch = "short_circuit" -> [s EXCEPT !.short_circuit = (e.v = 1)]
    [] e.ch = "r_internal_mohm" -> [s EXCEPT !.r_internal_mohm = e.v]
    [] e.ch = "temp_ambient_c" -> [s EXCEPT !.temp_ambient_c = e.v]
    [] e.ch = "gas_ratio_1" -> [s EXCEPT !.gas_ratio_1 = e.v]
    [] e.ch = "gas_ratio_2" -> [s EXCEPT !.gas_ratio_2 = e.v]
    [] e.ch = "pressure_delta_1_hpa" -> [s EXCEPT !.pressure_delta_1_hpa = e.v]
    [] e.ch = "pressure_delta_2_hpa" -> [s EXCEPT !.pressure_delta_2_hpa = e.v]
    [] e.ch = "ntc_all" ->
         [s EXCEPT !.modules = [m \in Modules |->
                      [s.modules[m] EXCEPT !.ntc1_c = e.v, !.ntc2_c = e.v]]]
    [] e.ch = "ntc1_c" -> [s EXCEPT !.modules[e.m].ntc1_c = e.v]
    [] e.ch = "ntc2_c" -> [s EXCEPT !.modules[e.m].ntc2_c = e.v]
    [] e.ch = "max_dt_dt" -> [s EXCEPT !.modules[e.m].max_dt_dt = e.v]
    [] e.ch = "swelling_pct" -> [s EXCEPT !.modules[e.m].swelling_pct = e.v]
    [] e.ch = "group_voltage" ->
         [s EXCEPT !.modules[e.m].group_voltages_v[e.g] = e.v]

\* The snapshots the evaluator is run on: the normal snapshot with up to two
\* channels changed.
EvalSnapshots ==
  {ApplyEdit(ApplyEdit(NormalSnapshot, e1), e2) : e1 \in Edits, e2 \in Edits}

\* The thresholds it is run with: the defaults, and a record with tighter
\* warning limits.
EvalThresholds ==
  { anomaly_eval_init,
    [anomaly_eval_init EXCEPT !.temp_warning_c = 5000,
                              !.current_warning_a = 15000,
                              !.delta_t_ambient_warning = 1500,
                              !.gas_warning_ratio = 80,
                              !.pressure_warning_hpa = 150,
                              !.swelling_warning_pct = 250,
                              !.v_spread_warn_mv = 40,
                              !.r_int_warning_mohm = 50] }

\* anomaly_eval_compute on the sample at hand.
EvalCompute ==
  /\ pc = "sample"
  /\ g_snapshot' = anomaly_eval_compute(env.data)
  /\ pc' = "computed"
  /\ UNCHANGED <<g_corr, call, run, g_anomaly, g_uptime_ms, g_fast_loop_ms,
                 g_med_loop_ms, g_slow_loop_ms, g_next_fast_ms, g_next_med_ms,
                 g_next_slow_ms, g_external_input_active, g_last_external_ms,
                 g_safety_armed, g_thresholds, g_input_rx, link, tx, relay,
                 leds, env, watch>>

\* anomaly_eval_run on the computed snapshot.
EvalRun ==
  /\ pc = "computed"
  /\ g_anomaly' = anomaly_eval_run_channels(g_thresholds, g_snapshot)
  /\ pc' = "evaluated"
  /\ UNCHANGED <<g_corr, call, run, g_snapshot, g_uptime_ms, g_fast_loop_ms,
                 g_med_loop_ms, g_slow_loop_ms, g_next_fast_ms, g_next_med_ms,
                 g_next_slow_ms, g_external_input_active, g_last_external_ms,
                 g_safety_armed, g_thresholds, g_input_rx, link, tx, relay,
                 leds, env, watch>>

InitEval ==
  /\ \E t \in EvalThresholds : InitSystemWith(MED_LOOP_NORMAL_MS, t)
  /\ pc = "sample"
  /\ \E raw \in EvalSnapshots :
       env = [ data |-> raw, allowed |-> {raw}, data_until |-> 0,
               ext_from |-> 0, ext_until |-> 0, horizon |-> 0 ]

NextEval == EvalCompute \/ EvalRun

SpecEval == InitEval /\ [][NextEval]_vars

\* ------------------------------------------------------------------------
\* The inbound parser on its own
\* ------------------------------------------------------------------------

SeqXor(sq) == XorRange(sq, 1, Len(sq) + 1)

\* A frame as the twin sends it: the bytes and their XOR.
Framed(body) == Append(body, SeqXor(body))

\* A pack frame for a pack voltage in decivolts: 26 payload bytes, of which
\* the struct names the first 21.
PackFrame(dv) ==
  Framed(<<INPUT_SYNC_BYTE, INPUT_PACK_FRAME_SIZE, INPUT_TYPE_PACK>>
           \o Le16(dv) \o Le16(600) \o Le16(250) \o Le16(250) \o Le16(270)
           \o Le16(98) \o Le16(97) \o Le16(10) \o Le16(10)
           \o <<50>> \o Le16(5000) \o <<0, 0, 0, 0, 0>>)

\* A module frame: 20 payload bytes, which leaves room for twelve deltas
\* behind the base voltage.
ModuleFrame(index, d1, d2) ==
  Framed(<<INPUT_SYNC_BYTE, INPUT_MODULE_FRAME_SIZE, INPUT_TYPE_MODULE,
           index>>
           \o Le16(280 + 3 * index) \o Le16(282 + 3 * index) \o <<0>>
           \o Le16(3200)
           \o <<Lo(d1 + 256), Lo(d2 + 256), 0, 0, 0, 0, 0, 0, 0, 0, 0, 0>>)

\* The same frame with a wrong checksum byte.
BadChecksum(frame) ==
  [frame EXCEPT ![Len(frame)] = Xor(frame[Len(frame)], 1)]

Item(bytes, valid, clean) ==
  [bytes |-> bytes, valid |-> valid, clean |-> clean]

\* What the sender may start: the nine frames of a cycle, a frame with a
\* module index out of range, filler (a zero byte, or three bytes that look
\* like the head of a module frame but for the sync), and noise: a sync
\* that looks like the head of a pack frame, a pack head with a wrong
\* length, an unknown type and a frame with a bad checksum.
Items ==
  {Item(PackFrame(3328), TRUE, TRUE)}
    \cup {Item(ModuleFrame(i, -5, i), TRUE, TRUE) : i \in 0..NUM_MODULES}
    \cup {Item(<<0>>, FALSE, TRUE),
          Item(<<0, INPUT_MODULE_FRAME_SIZE, INPUT_TYPE_MODULE>>,
               FALSE, TRUE)}
    \cup {Item(<<INPUT_SYNC_BYTE, INPUT_PACK_FRAME_SIZE, INPUT_TYPE_PACK>>,
               FALSE, FALSE),
          Item(<<INPUT_SYNC_BYTE, INPUT_PACK_FRAME_SIZE - 1,
                 INPUT_TYPE_PACK>>, FALSE, FALSE),
          Item(<<INPUT_SYNC_BYTE, INPUT_MODULE_FRAME_SIZE, 7>>,
               FALSE, FALSE),
          Item(BadChecksum(ModuleFrame(1, 0, 0)), FALSE, FALSE)}

\* The slot a valid frame belongs to: the module index, NUM_MODULES for
\* the pack frame, -1 for a module index out of range.
SlotOf(frame) ==
  IF frame[3] = INPUT_TYPE_PACK THEN NUM_MODULES
  ELSE IF frame[4] < NUM_MODULES THEN frame[4] ELSE -1

AllSlots == 0..NUM_MODULES

\* The slots the receiver has not seen filled in this cycle.
Missing(rx) ==
  {m \in 0..(NUM_MODULES - 1) : ~HasBit(rx.modules_received, 2 ^ m)}
    \cup (IF rx.pack_received = 0 THEN {NUM_MODULES} ELSE {})

\* The item is filler: bytes without a sync byte.
IsFiller(it) == ~it.valid /\ it.clean

\* The item is neither filler nor a frame of the cycle still missing.
IsExtra(rx, it) ==
  ~IsFiller(it) /\ ~(it.valid /\ SlotOf(it.bytes) \in Missing(rx))

\* The sender starts the next item: a frame of the cycle still missing,
\* more filler as long as there has been no noise or, once in a run and
\* among the last RxTail items, something else.
RxSend ==
  /\ pc = "rx"
  /\ link.wire = << >>
  /\ \E it \in Items :
       /\ IF IsFiller(it) THEN link.clean ELSE link.started < RxItems
       /\ IsExtra(g_input_rx, it) => /\ ~link.disturbed
                                /\ link.started + RxTail >= RxItems
       /\ link' = [link EXCEPT
                    !.wire = it.bytes,
                    !.disturbed = @ \/ IsExtra(g_input_rx, it),
                    !.frame = IF it.valid THEN it.bytes ELSE << >>,
                    !.started = IF IsFiller(it) THEN @ ELSE @ + 1,
                    !.clean = link.clean /\ it.clean,
                    !.result = -1,
                    !.completed = FALSE,
                    !.sent = IF link.result = 2 THEN {} ELSE @]
  /\ UNCHANGED <<g_corr, call, run, g_anomaly, g_snapshot, g_uptime_ms,
                 g_fast_loop_ms, g_med_loop_ms, g_slow_loop_ms,
                 g_next_fast_ms, g_next_med_ms, g_next_slow_ms,
                 g_external_input_active, g_last_external_ms,
                 g_safety_armed, g_thresholds, g_input_rx, tx, relay, leds,
                 pc, env, watch>>

\* main.c lines 664-673: one received byte is fed to the parser; a complete
\* cycle is applied to the snapshot and the cycle tracking is reset.
RxFeed ==
  /\ pc = "rx"
  /\ link.wire # << >>
  /\ LET out == input_rx_feed(g_input_rx, Head(link.wire))
         last == Len(link.wire) = 1 /\ link.frame # << >>
         sent1 == IF last /\ SlotOf(link.frame) >= 0
                  THEN link.sent \cup {SlotOf(link.frame)} ELSE link.sent
     IN /\ IF out.result = 2
           THEN /\ g_snapshot' = apply_external_input(g_snapshot, out.rx)
                /\ g_input_rx' = input_rx_reset_cycle(out.rx)
                /\ g_external_input_active' = TRUE
                /\ g_last_external_ms' = g_uptime_ms
           ELSE /\ g_input_rx' = out.rx
                /\ UNCHANGED <<g_snapshot, g_external_input_active,
                               g_last_external_ms>>
        /\ link' = [link EXCEPT !.wire = Tail(link.wire),
                                !.result = out.result,
                                !.completed = last,
                                !.sent = sent1]
  /\ UNCHANGED <<g_corr, call, run, g_anomaly, g_uptime_ms, g_fast_loop_ms,
                 g_med_loop_ms, g_slow_loop_ms, g_next_fast_ms,
                 g_next_med_ms, g_next_slow_ms, g_safety_armed, g_thresholds,
                 tx, relay, leds, pc, env, watch>>

\* input_rx_init, the snapshot holding the normal data.
InitRx ==
  /\ InitGlobals(MED_LOOP_NORMAL_MS, anomaly_eval_init)
  /\ g_snapshot = NormalSnapshot
  /\ pc = "rx"
  /\ env = [ data |-> Nom, allowed |-> {Nom}, data_until |-> 0,
             ext_from |-> 0, ext_until |-> 0, horizon |-> 0 ]

NextRx == RxSend \/ RxFeed

SpecRx == InitRx /\ [][NextRx]_vars

\* ------------------------------------------------------------------------
\* The telemetry encoder on its own
\* ------------------------------------------------------------------------

\* Snapshots with values inside and beyond the range of the frame's fields.
PacketSnapshots ==
  {ApplyEdit(NormalSnapshot, e) :
     e \in Edit("none", 0, 0, {0})
             \cup Edit("pack_voltage_v", 0, 0, {700000})
             \cup Edit("pack_current_a", 0, 0, {-18001})
             \cup Edit("gas_ratio_1", 0, 0, {0, 100, 150, -20})
             \cup Edit("gas_ratio_2", 0, 0, {30000})
             \cup Edit("pressure_delta_1_hpa", 0, 0, {-40000, 40000})
             \cup Edit("ntc_all", 0, 0, {SENTINEL_C})
             \cup Edit("ntc1_c", 1, 0, {30001})
             \cup Edit("max_dt_dt", 1, 0, {2500})}

\* Values of g_uptime_ms at the time of encoding.
PacketTimestamps == {0, 5000, SIM_DURATION_S * 1000}

\* The bits changed in a byte of a frame.
FlipMasks == {1, 128, 255}

\* main.c line 524, test_main.c line 336: the frame of the snapshot and the
\* result at hand.
PacketEncode ==
  /\ pc = "evaluated"
  /\ \E ts \in PacketTimestamps :
     \E st \in {STATE_NORMAL, STATE_WARNING, STATE_CRITICAL, STATE_EMERGENCY} :
       LET pkt == packet_encode_pack(ts, g_snapshot, g_anomaly, st)
       IN tx' = [pkt |-> pkt, emitted |-> pkt, changed |-> -1, valid |-> 1]
  /\ pc' = "encoded"
  /\ UNCHANGED <<g_corr, call, run, g_anomaly, g_snapshot, g_uptime_ms,
                 g_fast_loop_ms, g_med_loop_ms, g_slow_loop_ms,
                 g_next_fast_ms, g_next_med_ms, g_next_slow_ms,
                 g_external_input_active, g_last_external_ms,
                 g_safety_armed, g_thresholds, g_input_rx, link, relay,
                 leds, env, watch>>

\* test_main.c line 349: one byte of the frame is written over; the writer
\* may set the checksum byte to the XOR of the bytes as they are then.
PacketCorrupt ==
  /\ pc = "encoded"
  /\ tx.changed = -1
  /\ \E off \in 0..(PACKET_PACK_SIZE - 1) :
     \E mask \in FlipMasks :
     \E fix \in BOOLEAN :
       LET hit == [tx.pkt EXCEPT ![off] = Xor(@, mask)]
           pkt == IF fix
                  THEN [hit EXCEPT ![PACKET_PACK_SIZE - 1] =
                                      XorRange(hit, 0, PACKET_PACK_SIZE - 1)]
                  ELSE hit
       IN tx' = [tx EXCEPT !.pkt = pkt, !.changed = off]
  /\ UNCHANGED <<g_corr, call, run, g_anomaly, g_snapshot, g_uptime_ms,
                 g_fast_loop_ms, g_med_loop_ms, g_slow_loop_ms,
                 g_next_fast_ms, g_next_med_ms, g_next_slow_ms,
                 g_external_input_active, g_last_external_ms,
                 g_safety_armed, g_thresholds, g_input_rx, link, relay,
                 leds, pc, env, watch>>

\* packet_validate_pack on the frame as it is held.
PacketValidate ==
  /\ pc = "encoded"
  /\ tx' = [tx EXCEPT !.valid = packet_validate_pack(tx.pkt)]
  /\ pc' = "validated"
  /\ UNCHANGED <<g_corr, call, run, g_anomaly, g_snapshot, g_uptime_ms,
                 g_fast_loop_ms, g_med_loop_ms, g_slow_loop_ms,
                 g_next_fast_ms, g_next_med_ms, g_next_slow_ms,
                 g_external_input_active, g_last_external_ms,
                 g_safety_armed, g_thresholds, g_input_rx, link, relay,
                 leds, env, watch>>

\* anomaly_eval_init, a snapshot to compute, evaluate and encode.
InitPacket ==
  /\ InitSystemWith(MED_LOOP_NORMAL_MS, anomaly_eval_init)
  /\ pc = "sample"
  /\ \E raw \in PacketSnapshots :
       env = [ data |-> raw, allowed |-> {raw}, data_until |-> 0,
               ext_from |-> 0, ext_until |-> 0, horizon |-> 0 ]

NextPacket ==
  EvalCompute \/ EvalRun \/ PacketEncode \/ PacketCorrupt \/ PacketValidate

SpecPacket == InitPacket /\ [][NextPacket]_vars

\* ------------------------------------------------------------------------
\* The engine API on its own
\* ------------------------------------------------------------------------

\* correlation_engine_update called with any result the evaluator can return.
EngineUpdate ==
  /\ pc = "api"
  /\ \E a \in Results :
       /\ g_corr' = correlation_engine_update(g_corr, a).engine
       /\ call' = CallOf(g_corr, a, "update")
       /\ run' = RunAfter(run, g_corr, a)
  /\ UNCHANGED schedVars

\* correlation_engine_reset.
EngineReset ==
  /\ pc = "api"
  /\ g_corr' = correlation_engine_reset
  /\ call' = NoCall("reset")
  /\ run' = NoRun
  /\ UNCHANGED schedVars

\* A freshly initialised engine whose limits the scheduler has synchronised
\* to the nominal or to the alert medium period.
InitEngine ==
  /\ \E p \in {MED_LOOP_NORMAL_MS, MED_LOOP_ALERT_MS} : InitSystemAt(p)
  /\ pc = "api"
  /\ env = [ data |-> Nom, allowed |-> {Nom}, data_until |-> 0,
             ext_from |-> 0, ext_until |-> 0, horizon |-> 0 ]

NextEngine == EngineUpdate \/ EngineReset

SpecEngine ==
  /\ InitEngine
  /\ [][NextEngine]_vars

\* ------------------------------------------------------------------------
\* Properties of the engine (checked under SpecEngine)
\* ------------------------------------------------------------------------

IsUpdate(c) == c.op \in {"update", "med", "fast"}

Latched(e) == e.current_state = STATE_EMERGENCY /\ e.emergency_latched

\* C1: an update whose result carries is_short_circuit or
\* is_emergency_direct, or has active_count >= 3, leaves the engine in
\* EMERGENCY with the latch set and returns EMERGENCY, whatever state the
\* engine was in before and on that very update.
C1_ImmediateEmergency ==
  (IsUpdate(call)
     /\ (call.r.is_short_circuit \/ call.r.is_emergency_direct
           \/ call.r.active_count >= 3))
  => (Latched(g_corr) /\ call.ret = STATE_EMERGENCY)

\* C1 witness: a short-circuit result met the engine in the middle of a
\* CRITICAL countdown and latched it at once.
C1_Witness ==
  /\ call.op = "update"
  /\ call.r.is_short_circuit
  /\ call.prev.current_state = STATE_CRITICAL
  /\ call.prev.critical_countdown > 0
  /\ call.prev.critical_countdown + 1 < call.prev.critical_countdown_limit
  /\ Latched(g_corr)

\* C2: from a freshly initialised engine, as long as every result has at
\* most one active category and no flag, the engine is never above WARNING
\* and never latched.
C2_SingleDomainNeverTrips ==
  run.only_single
  => /\ g_corr.current_state \in {STATE_NORMAL, STATE_WARNING}
     /\ ~g_corr.emergency_latched
     /\ call.ret \in {STATE_NORMAL, STATE_WARNING}

\* C2 witness: a repeated single-category result keeps the engine in WARNING.
C2_Witness ==
  /\ run.only_single
  /\ call.op = "update"
  /\ call.r.active_count = 1
  /\ call.prev.current_state = STATE_WARNING
  /\ g_corr.current_state = STATE_WARNING

\* C3: a run of consecutive two-category results (no flag) that starts on an
\* unlatched engine outside CRITICAL keeps the engine in CRITICAL from its
\* first update up to the one before the L-th, and the L-th update of the
\* run leaves it in EMERGENCY, latched (L = critical_countdown_limit).
C3_CriticalHold ==
  (run.class = "two" /\ ~run.start_latched
     /\ run.start_state # STATE_CRITICAL)
  => /\ run.len >= 1
     /\ run.len < g_corr.critical_countdown_limit
          => /\ g_corr.current_state = STATE_CRITICAL
             /\ ~g_corr.emergency_latched
             /\ call.ret = STATE_CRITICAL
     /\ run.len = g_corr.critical_countdown_limit
          => /\ Latched(g_corr)
             /\ call.ret = STATE_EMERGENCY
     /\ run.len > g_corr.critical_countdown_limit => Latched(g_corr)

\* C3 witness: the 100th two-category update in a row, counted from NORMAL
\* with the alert-period limit, escalates.
C3_Witness ==
  /\ run.class = "two"
  /\ run.start_state = STATE_NORMAL
  /\ ~run.start_latched
  /\ g_corr.critical_countdown_limit
       = ms_to_cycles(CRITICAL_HOLD_MS, MED_LOOP_ALERT_MS)
  /\ run.len = g_corr.critical_countdown_limit
  /\ call.prev.current_state = STATE_CRITICAL
  /\ Latched(g_corr)

C5_OnlyRecoveryClearsLatch ==
  [][ (g_corr.emergency_latched
         /\ (~g_corr'.emergency_latched
               \/ g_corr'.current_state # STATE_EMERGENCY))
      => \/ call'.op = "reset"
         \/ /\ IsUpdate(call')
            /\ Nominal(call'.r)
            /\ g_corr.current_state = STATE_EMERGENCY
            /\ g_corr.emergency_recovery_counter + 1
                 = g_corr.emergency_recovery_limit
            /\ g_corr'.current_state = STATE_NORMAL
            /\ ~g_corr'.emergency_latched ]_vars

\* C5 witness: an update found the latch set and cleared it.
C5_Witness ==
  /\ call.op = "update"
  /\ call.prev.emergency_latched
  /\ ~g_corr.emergency_latched

\* The de-escalation hold itself: a run of nominal results that starts on an
\* unlatched engine in WARNING or CRITICAL keeps that state and counts up
\* until deescalation_limit of them have been seen, which drops the engine
\* to NORMAL and clears the counter.
DeescalationHold ==
  (run.class = "nominal" /\ ~run.start_latched
     /\ run.start_state \in {STATE_WARNING, STATE_CRITICAL})
  => /\ run.len < g_corr.deescalation_limit
          => /\ g_corr.current_state = run.start_state
             /\ g_corr.deescalation_counter = run.len
             /\ call.ret = run.start_state
     /\ run.len >= g_corr.deescalation_limit
          => /\ g_corr.current_state = STATE_NORMAL
             /\ g_corr.deescalation_counter = 0

\* Every update without an active category on an unlatched engine zeroes
\* the critical countdown.
NominalZeroesCountdown ==
  (call.op = "update" /\ ~call.prev.emergency_latched
     /\ call.r.active_count = 0)
  => g_corr.critical_countdown = 0

\* The update found the engine unlatched in WARNING or CRITICAL.
InHold ==
  /\ call.op = "update"
  /\ ~call.prev.emergency_latched
  /\ call.prev.current_state \in {STATE_WARNING, STATE_CRITICAL}

\* C6 as stated: the hold, and every update with active_count >= 1 during
\* it resets the de-escalation counter.
C6_Original ==
  /\ DeescalationHold
  /\ NominalZeroesCountdown
  /\ (InHold /\ call.r.active_count >= 1)
     => g_corr.deescalation_counter = 0

\* C6 as amended: the hold; an update with one or two active categories and
\* no flag resets the de-escalation counter, while an update that latches
\* EMERGENCY (three or more categories, short circuit or direct emergency)
\* leaves the counter as it found it.
C6_DeescalationHold ==
  /\ DeescalationHold
  /\ NominalZeroesCountdown
  /\ (InHold /\ ClassOf(call.r) \in {"one", "two"})
     => g_corr.deescalation_counter = 0
  /\ (InHold /\ ClassOf(call.r) = "emerg")
     => /\ g_corr.deescalation_counter = call.prev.deescalation_counter
        /\ Latched(g_corr)

\* C6 witness: the last nominal result of a full hold drops WARNING to
\* NORMAL.
C6_Witness ==
  /\ run.class = "nominal"
  /\ ~run.start_latched
  /\ run.start_state = STATE_WARNING
  /\ run.len = g_corr.deescalation_limit
  /\ call.prev.current_state = STATE_WARNING
  /\ g_corr.current_state = STATE_NORMAL
  /\ g_corr.deescalation_counter = 0

\* ------------------------------------------------------------------------
\* Properties of the scheduler (checked under Spec and SpecHold)
\* ------------------------------------------------------------------------

Within(x, target, tol) == x - target <= tol /\ target - x <= tol

\* C7: the scheduler time from the medium-slot run that enters CRITICAL to
\* the medium-slot run whose countdown escalates to EMERGENCY, with two
\* active categories at every evaluation in between, is within one medium
\* period of CRITICAL_HOLD_MS, for the period in force when the hold starts
\* and for the period in force when it ends (they differ when CRITICAL is
\* entered from NORMAL: 500 ms, then 100 ms).
C7_CriticalHoldRealTime ==
  watch.hold_end >= 0
  => /\ watch.hold_p \in {MED_LOOP_NORMAL_MS, MED_LOOP_ALERT_MS}
     /\ watch.hold_p_end \in {MED_LOOP_NORMAL_MS, MED_LOOP_ALERT_MS}
     /\ Within(watch.hold_end, CRITICAL_HOLD_MS, watch.hold_p)
     /\ Within(watch.hold_end, CRITICAL_HOLD_MS, watch.hold_p_end)

\* C7 witness: a hold entered at the 500 ms period and finished at the
\* 100 ms period has escalated.
C7_Witness ==
  /\ watch.hold_end >= 0
  /\ watch.hold_p = MED_LOOP_NORMAL_MS
  /\ watch.hold_p_end = MED_LOOP_ALERT_MS
  /\ call.op = "med"
  /\ Latched(g_corr)

\* c is ceil(w / p) clamped to 1..65535 (1 for p = 0).
IsClampedCeil(c, w, p) ==
  IF p = 0 \/ w = 0 THEN c = 1
  ELSE IF w > 65535 * p THEN c = 65535
  ELSE c * p >= w /\ (c - 1) * p < w

\* ms_to_cycles is the clamped ceiling, and gives 20 / 10 at 500 ms and
\* 100 / 50 at 100 ms.
CyclesAreClampedCeil ==
  /\ \A w \in {0, 1, DEESCALATION_HOLD_MS, CRITICAL_HOLD_MS, 70000},
        p \in {0, 1, 3, MED_LOOP_ALERT_MS, MED_LOOP_NORMAL_MS} :
        IsClampedCeil(ms_to_cycles(w, p), w, p)
  /\ ms_to_cycles(CRITICAL_HOLD_MS, MED_LOOP_NORMAL_MS) = 20
  /\ ms_to_cycles(DEESCALATION_HOLD_MS, MED_LOOP_NORMAL_MS) = 10
  /\ ms_to_cycles(CRITICAL_HOLD_MS, MED_LOOP_ALERT_MS) = 100
  /\ ms_to_cycles(DEESCALATION_HOLD_MS, MED_LOOP_ALERT_MS) = 50

LimitsMatch(e, med_ms) ==
  /\ e.critical_countdown_limit = ms_to_cycles(CRITICAL_HOLD_MS, med_ms)
  /\ e.deescalation_limit = ms_to_cycles(DEESCALATION_HOLD_MS, med_ms)

\* C8 as stated: the limits are recomputed whenever the medium period
\* changes, so in every state they correspond to the current medium period.
C8_Original ==
  /\ CyclesAreClampedCeil
  /\ LimitsMatch(g_corr, g_med_loop_ms)

\* C8 as amended: the limits are recomputed at the start of every due
\* medium-slot run, before the engine update, and on scheduler reset, from
\* the medium period then in force; a period change made at the end of a
\* slot leaves them at the previous period's values until that next run, so
\* they always correspond to the period of the latest medium-slot run or of
\* the reset (20 and 10 at 500 ms, 100 and 50 at 100 ms).
C8_LimitsSyncedEachRun ==
  [][ /\ CyclesAreClampedCeil
      /\ (pc = "med" /\ g_uptime_ms >= g_next_med_ms)
         => /\ LimitsMatch(g_corr', g_med_loop_ms)
            /\ LimitsMatch(call'.prev, g_med_loop_ms)
            /\ call'.op = "med"
      /\ ~(pc = "med" /\ g_uptime_ms >= g_next_med_ms)
         => /\ g_corr'.critical_countdown_limit
                 = g_corr.critical_countdown_limit
            /\ g_corr'.deescalation_limit = g_corr.deescalation_limit
      /\ (g_med_loop_ms' # g_med_loop_ms) => pc \in {"fast", "med"} ]_vars

\* C8 witness: a medium-slot run at the 100 ms period has its limits at 100
\* and 50.
C8_Witness ==
  /\ call.op = "med"
  /\ pc = "slow"
  /\ call.prev.critical_countdown_limit = 100
  /\ call.prev.deescalation_limit = 50
  /\ g_corr.critical_countdown_limit = 100
  /\ g_corr.deescalation_limit = 50
  /\ g_med_loop_ms = MED_LOOP_ALERT_MS

\* C9: once |pack_current_a| has been above 350 A for one fast period
\* (the period in force at the tick it went above) without dropping back,
\* the fast slot has run, set snapshot.short_circuit and updated the engine
\* inline, and the engine is latched in EMERGENCY with the EMERGENCY outputs
\* asserted.
C9_ShortCircuitWithinFastPeriod ==
  (/\ watch.oc_ms >= 0
   /\ \/ watch.oc_ms > watch.oc_p
      \/ watch.oc_ms = watch.oc_p /\ pc \notin {"acquire", "fast"})
  => /\ watch.oc_done
     /\ Latched(g_corr)
     /\ relay = GPIO_HIGH
     /\ leds = STATE_EMERGENCY

\* C9 witness: the current went above the threshold between two fast slots
\* of the nominal period and the next fast slot tripped before any medium
\* slot had evaluated it.
C9_Witness ==
  /\ watch.oc_ms > 0
  /\ watch.oc_ms <= watch.oc_p
  /\ watch.oc_p = FAST_LOOP_NORMAL_MS
  /\ watch.oc_done
  /\ pc = "med"
  /\ call.op = "fast"
  /\ call.prev.current_state = STATE_NORMAL
  /\ Latched(g_corr)

\* C10: in every state of the target build in which the engine is in
\* EMERGENCY the relay output is at the disconnected level (HIGH), and it is
\* still there after a contactor-open request that found it already open.
C10_ContactorOpenOnEmergency ==
  /\ g_corr.current_state = STATE_EMERGENCY => relay = GPIO_HIGH
  /\ watch.reopened => relay = GPIO_HIGH
  /\ (call.op \in {"med", "fast"} /\ call.ret = STATE_EMERGENCY)
     => relay = GPIO_HIGH

\* C10 witness: a medium-slot run left the engine in EMERGENCY and issued
\* the open request on a relay that an earlier run had already opened.
C10_Witness ==
  /\ watch.reopened
  /\ call.op = "med"
  /\ call.prev.emergency_latched
  /\ g_corr.current_state = STATE_EMERGENCY
  /\ g_safety_armed
  /\ relay = GPIO_HIGH

\* ------------------------------------------------------------------------
\* Properties of the start-up (checked under SpecBoot)
\* ------------------------------------------------------------------------

\* The ordering rules of the threshold record.
ThresholdsOrdered(t) ==
  /\ t.temp_warning_c < t.temp_critical_c
  /\ t.temp_critical_c < t.temp_emergency_c
  /\ t.gas_warning_ratio > t.gas_critical_ratio
  /\ t.pressure_warning_hpa < t.pressure_critical_hpa
  /\ t.current_warning_a < t.current_short_a
  /\ t.current_short_a < t.current_emergency_a

\* C11: the self-check passes (and arms the relay connect path) exactly for
\* the threshold records that satisfy every ordering rule, the emergency
\* tiers included.
C11_SelfCheckOrdering ==
  pc # "boot" => (g_safety_armed <=> ThresholdsOrdered(g_thresholds))

\* C12: after a failed self-check the safety-armed flag is false in every
\* later state, hal_gpio_relay_connect leaves the relay output as it is, and
\* the relay is at the disconnected level from boot onward.
C12_FailedCheckInhibitsClose ==
  (pc # "boot" /\ ~startup_self_check(g_thresholds))
  => /\ ~g_safety_armed
     /\ relay = GPIO_HIGH
     /\ \A level \in {GPIO_LOW, GPIO_HIGH} :
          hal_gpio_relay_connect(g_safety_armed, level) = level

\* C12 witness: the loop runs with nominal data after a failed self-check
\* and the relay is still open.
C12_Witness ==
  /\ ~startup_self_check(g_thresholds)
  /\ g_uptime_ms > 0
  /\ pc = "advance"
  /\ g_corr.current_state = STATE_NORMAL
  /\ ~g_safety_armed
  /\ relay = GPIO_HIGH

\* ------------------------------------------------------------------------
\* The latch against sequences of updates (checked under SpecEngine)
\* ------------------------------------------------------------------------

MedDue == pc = "med" /\ g_uptime_ms >= g_next_med_ms

FastTrips ==
  pc = "fast" /\ g_uptime_ms >= g_next_fast_ms /\ g_snapshot.cur >= 2

MinOf(a, b) == IF a <= b THEN a ELSE b

\* A deadline before and after one application at g_uptime_ms.
PulledIn(before, after, old_period, new_period) ==
  /\ after = MinOf(before, g_uptime_ms + new_period)
  /\ (new_period > old_period \/ before <= g_uptime_ms + new_period)
     => after = before

\* C14: after scheduler_apply_sampling_rates each slot's deadline is the
\* smaller of its previous deadline and now + new period, and it is
\* unchanged when the period lengthened or the deadline was not later than
\* now + new period.  (The slot that runs sets its own deadline afterwards,
\* so a step shows the deadlines of the other two slots.)
C14_DeadlinePullIn ==
  [][ /\ MedDue
         => /\ PulledIn(g_next_fast_ms, g_next_fast_ms',
                        g_fast_loop_ms, g_fast_loop_ms')
            /\ PulledIn(g_next_slow_ms, g_next_slow_ms',
                        g_slow_loop_ms, g_slow_loop_ms')
      /\ FastTrips
         => /\ PulledIn(g_next_med_ms, g_next_med_ms',
                        g_med_loop_ms, g_med_loop_ms')
            /\ PulledIn(g_next_slow_ms, g_next_slow_ms',
                        g_slow_loop_ms, g_slow_loop_ms') ]_vars

\* C14 witness: the first medium slot found an anomaly, pulled the fast
\* deadline in from 100 ms to 20 ms and left the due slow deadline alone.
C14_Witness ==
  /\ pc = "slow"
  /\ g_uptime_ms = 0
  /\ call.op = "med"
  /\ call.prev.current_state = STATE_NORMAL
  /\ g_fast_loop_ms = FAST_LOOP_ALERT_MS
  /\ g_next_fast_ms = FAST_LOOP_ALERT_MS
  /\ g_next_slow_ms = 0

\* C15: every application of sampling rates leaves fast 20, medium 100 and
\* slow 1000 ms exactly when the snapshot has short_circuit, the result has
\* an active category or the engine is not NORMAL, and fast 100 and medium
\* 500 ms otherwise, with slow 1000 ms if external input is active and
\* 5000 ms if not; no other step changes a period.
C15_PeriodsFollowAlertMode ==
  [][ /\ (MedDue \/ FastTrips)
         => LET alert == \/ g_snapshot'.short_circuit
                         \/ g_anomaly'.active_count > 0
                         \/ g_corr'.current_state # STATE_NORMAL
            IN /\ alert
                  => /\ g_fast_loop_ms' = 20
                     /\ g_med_loop_ms' = 100
                     /\ g_slow_loop_ms' = 1000
               /\ ~alert
                  => /\ g_fast_loop_ms' = 100
                     /\ g_med_loop_ms' = 500
                     /\ g_slow_loop_ms'
                          = IF g_external_input_active THEN 1000 ELSE 5000
      /\ ~(MedDue \/ FastTrips \/ pc = "advance")
         => UNCHANGED <<g_fast_loop_ms, g_med_loop_ms, g_slow_loop_ms>>
    ]_vars

\* C15 witness: a medium slot outside alert mode with external input active
\* has left fast 100, medium 500 and slow 1000 ms.
C15_Witness ==
  /\ pc = "slow"
  /\ call.op = "med"
  /\ g_external_input_active
  /\ g_corr.current_state = STATE_NORMAL
  /\ g_anomaly.active_count = 0
  /\ ~g_snapshot.short_circuit
  /\ g_fast_loop_ms = FAST_LOOP_NORMAL_MS
  /\ g_med_loop_ms = MED_LOOP_NORMAL_MS
  /\ g_slow_loop_ms = SLOW_LOOP_EXTERNAL_MS

\* ------------------------------------------------------------------------
\* Engine updates per slot (checked under Spec)
\* ------------------------------------------------------------------------

\* C16 as stated: the number of correlation_engine_update calls since init
\* or reset equals the number of medium-slot executions.
C16_Original ==
  watch.total_evaluations = watch.med_runs

\* C16 as amended: every medium-slot execution calls the update exactly
\* once, and so does every fast-slot execution that finds the current above
\* the trip level; no other step calls it, so the number of calls equals
\* the medium-slot executions plus those fast-slot executions.
C16_UpdatesPerSlot ==
  [][ /\ watch'.total_evaluations = watch'.med_runs + watch'.fast_trips
      /\ MedDue
         => /\ watch'.total_evaluations = watch.total_evaluations + 1
            /\ watch'.med_runs = watch.med_runs + 1
            /\ call'.op = "med"
      /\ FastTrips
         => /\ watch'.total_evaluations = watch.total_evaluations + 1
            /\ watch'.fast_trips = watch.fast_trips + 1
            /\ call'.op = "fast"
      /\ ~(MedDue \/ FastTrips \/ pc = "advance")
         => /\ watch'.total_evaluations = watch.total_evaluations
            /\ g_corr' = g_corr ]_vars

\* C16 witness: both kinds of update have happened more than once.
C16_Witness ==
  /\ watch.med_runs >= 2
  /\ watch.fast_trips >= 2
  /\ watch.total_evaluations = watch.med_runs + watch.fast_trips
  /\ call.op = "med"

\* ------------------------------------------------------------------------
\* Telemetry consistency (checked under Spec)
\* ------------------------------------------------------------------------

\* C17: every slow-slot run encodes a snapshot that the most recent
\* evaluator + engine update processed: no slow-slot run happens with the
\* snapshot overwritten after that update.
C17_TelemetryConsistent ==
  ~watch.sent_stale

\* ------------------------------------------------------------------------
\* External input timeout (checked under SpecRestart)
\* ------------------------------------------------------------------------

\* C18: after every acquisition, if the last complete inbound cycle was
\* applied at most EXTERNAL_INPUT_TIMEOUT_MS of scheduler time ago, external
\* input counts as active and the acquisition did not call the internal
\* simulation; the demo restart makes no difference.
C18_ExternalInputTimeout ==
  (pc \notin {"boot", "acquire"}
   /\ watch.ext_age >= 0
   /\ watch.ext_age <= EXTERNAL_INPUT_TIMEOUT_MS)
    => (g_external_input_active /\ ~watch.sim_used)

\* ------------------------------------------------------------------------
\* Category rules of the evaluator (checked under SpecEval)
\* ------------------------------------------------------------------------

MaxOf(a, b) == IF a >= b THEN a ELSE b

\* The hottest NTC reading of the pack.
HottestNtc(s) ==
  SetMax({s.modules[m].ntc1_c : m \in Modules}
           \cup {s.modules[m].ntc2_c : m \in Modules})

GasRuleHolds(t, s) ==
  MinOf(s.gas_ratio_1, s.gas_ratio_2) < t.gas_warning_ratio

PressureRuleHolds(t, s) ==
  MaxOf(s.pressure_delta_1_hpa, s.pressure_delta_2_hpa)
    > t.pressure_warning_hpa

SwellingRuleHolds(t, s) ==
  \E m \in Modules : s.modules[m].swelling_pct > t.swelling_warning_pct

AmbientRuleHolds(t, s) ==
  HottestNtc(s) - s.temp_ambient_c >= t.delta_t_ambient_warning

OtherThermalRuleHolds(t, s) ==
  \/ \E m \in Modules : \/ s.modules[m].ntc1_c > t.temp_warning_c
                        \/ s.modules[m].ntc2_c > t.temp_warning_c
  \/ \E m \in Modules : s.modules[m].delta_t_intra > t.intra_module_dt_warn_c
  \/ s.temp_spread_c > t.inter_module_dt_warn_c
  \/ s.dt_dt_max > t.dt_dt_warning
  \/ HottestNtc(s) > t.temp_emergency_c
  \/ s.dt_dt_max > t.dt_dt_emergency

ElectricalRuleHolds(t, s) ==
  \/ s.pack_voltage_v < t.voltage_low_v
  \/ s.pack_voltage_v > t.voltage_high_v
  \/ s.v_spread_mv > t.v_spread_warn_mv
  \/ \E m \in Modules, g \in Groups :
       Abs(GROUPS_PER_MODULE * s.modules[m].group_voltages_v[g]
             - s.modules[m].module_voltage)
         > GROUPS_PER_MODULE * t.group_v_deviation_mv
  \/ Abs(s.pack_current_a) > t.current_warning_a
  \/ s.r_internal_mohm > t.r_int_warning_mohm
  \/ s.short_circuit
  \/ Abs(s.pack_current_a) > t.current_short_a

\* C19: for a snapshot with its derived fields computed, anomaly_eval_run
\* sets each category bit exactly when one of the category's rules holds:
\* GAS on the smaller gas ratio below its warning, PRESSURE on the larger
\* pressure delta above its warning, SWELLING on some module above the
\* swelling warning, THERMAL on an NTC, intra-module, inter-module,
\* ambient-compensated (>=), dT/dt or physics-limit rule, ELECTRICAL on a
\* pack voltage, spread, group deviation, current, R_int or short-circuit
\* rule.
C19_CategoryBitsFollowRules ==
  pc = "evaluated" =>
    /\ HasBit(g_anomaly.active_mask, CAT_GAS)
         <=> GasRuleHolds(g_thresholds, g_snapshot)
    /\ HasBit(g_anomaly.active_mask, CAT_PRESSURE)
         <=> PressureRuleHolds(g_thresholds, g_snapshot)
    /\ HasBit(g_anomaly.active_mask, CAT_SWELLING)
         <=> SwellingRuleHolds(g_thresholds, g_snapshot)
    /\ HasBit(g_anomaly.active_mask, CAT_THERMAL)
         <=> (\/ AmbientRuleHolds(g_thresholds, g_snapshot)
              \/ OtherThermalRuleHolds(g_thresholds, g_snapshot))
    /\ HasBit(g_anomaly.active_mask, CAT_ELECTRICAL)
         <=> ElectricalRuleHolds(g_thresholds, g_snapshot)

\* The evaluator has run on a snapshot whose hottest NTC is exactly
\* delta_t_ambient_warning above ambient and whose second gas sensor reads
\* below the warning ratio, nothing else being wrong: THERMAL and GAS are
\* set and no other bit.
C19_Witness ==
  /\ pc = "evaluated"
  /\ g_thresholds = anomaly_eval_init
  /\ HottestNtc(g_snapshot) - g_snapshot.temp_ambient_c
       = g_thresholds.delta_t_ambient_warning
  /\ ~OtherThermalRuleHolds(g_thresholds, g_snapshot)
  /\ g_snapshot.gas_ratio_2 < g_thresholds.gas_warning_ratio
  /\ g_anomaly.active_mask = CAT_THERMAL + CAT_GAS
  /\ g_anomaly.active_count = 2

\* ------------------------------------------------------------------------
\* Shorted NTC (checked under SpecEval)
\* ------------------------------------------------------------------------

\* The normal snapshot with one NTC reading the shorted-sensor value.
SentinelSnapshots ==
  {[NormalSnapshot EXCEPT !.modules[m].ntc1_c = SENTINEL_C] : m \in Modules}
    \cup
  {[NormalSnapshot EXCEPT !.modules[m].ntc2_c = SENTINEL_C] : m \in Modules}

\* C20: after anomaly_eval_compute and anomaly_eval_run on an otherwise
\* normal snapshot with one NTC at the shorted-sensor value, with the
\* default thresholds, the THERMAL bit is clear and active_mask is 0.
C20_SentinelLeavesThermalClear ==
  (pc = "evaluated"
   /\ g_thresholds = anomaly_eval_init
   /\ env.data \in SentinelSnapshots)
    => (/\ ~HasBit(g_anomaly.active_mask, CAT_THERMAL)
        /\ g_anomaly.active_mask = 0)

\* ------------------------------------------------------------------------
\* Well-formed results (checked under SpecEval)
\* ------------------------------------------------------------------------

CategoryBits ==
  {CAT_ELECTRICAL, CAT_THERMAL, CAT_GAS, CAT_PRESSURE, CAT_SWELLING}

\* C21: every result of anomaly_eval_run is well formed: active_count is
\* the number of set bits of active_mask and lies in 0..5, active_mask uses
\* only the five category bits, risk_factor lies in [0, 1] and cascade_stage
\* in 0..6.
C21_ResultWellFormed ==
  pc = "evaluated" =>
    /\ g_anomaly.active_count
         = Cardinality({b \in CategoryBits : HasBit(g_anomaly.active_mask, b)})
    /\ g_anomaly.active_count \in 0..CAT_COUNT
    /\ g_anomaly.active_mask \in 0..(2 * CAT_SWELLING - 1)
    /\ g_anomaly.risk_factor \in 0..RISK_ONE
    /\ g_anomaly.cascade_stage \in 0..NUM_CASCADE_THRESHOLDS

\* The evaluator has run on a snapshot whose core temperature alone gives a
\* contribution above 1: the risk factor is 1 and the stage is 6.
C21_Witness ==
  /\ pc = "evaluated"
  /\ 5 * (g_snapshot.t_core_est_c - 6000) > RISK_ONE
  /\ g_anomaly.risk_factor = RISK_ONE
  /\ g_anomaly.cascade_stage = NUM_CASCADE_THRESHOLDS
  /\ g_anomaly.active_count >= 1

\* ------------------------------------------------------------------------
\* Hotspot (checked under SpecEval)
\* ------------------------------------------------------------------------

\* The hotter NTC of module m.
HotterNtc(s, m) == MaxOf(s.modules[m].ntc1_c, s.modules[m].ntc2_c)

\* C22: after anomaly_eval_compute, hotspot_module lies in 1..8 and is the
\* lowest-index module whose hotter NTC equals the maximum of all 16 NTC
\* readings, and hotspot_temp_c is that maximum.
C22_HotspotIsHottestModule ==
  pc \in {"computed", "evaluated"} =>
    /\ g_snapshot.hotspot_module \in Modules
    /\ g_snapshot.hotspot_module
         = SetMin({m \in Modules :
                     HotterNtc(g_snapshot, m) = HottestNtc(g_snapshot)})
    /\ g_snapshot.hotspot_temp_c = HottestNtc(g_snapshot)

\* ------------------------------------------------------------------------
\* Cascade stage (checked under SpecEval)
\* ------------------------------------------------------------------------

\* Temperatures at and next to every stage boundary.
StageProbes ==
  UNION {{CASCADE_THRESHOLDS[i] - 1, CASCADE_THRESHOLDS[i],
          CASCADE_THRESHOLDS[i] + 1} : i \in 1..NUM_CASCADE_THRESHOLDS}

\* C23: the stage of a core temperature is the number of boundaries of
\* {60, 80, 120, 150, 200, 300} degC it strictly exceeds, so a temperature
\* on a boundary belongs to the lower stage; the stage lies in 0..6 and does
\* not decrease with the temperature.
C23_StageCountsExceeded ==
  pc = "evaluated" =>
    /\ g_anomaly.cascade_stage
         = Cardinality({i \in 1..NUM_CASCADE_THRESHOLDS :
                          g_snapshot.t_core_est_c > CASCADE_THRESHOLDS[i]})
    /\ g_anomaly.cascade_stage \in 0..NUM_CASCADE_THRESHOLDS
    /\ \A c \in StageProbes :
         /\ c <= g_snapshot.t_core_est_c
              => get_cascade_stage(c) <= g_anomaly.cascade_stage
         /\ c >= g_snapshot.t_core_est_c
              => get_cascade_stage(c) >= g_anomaly.cascade_stage

\* The evaluator has run on a snapshot whose core temperature is exactly
\* 60 degC: the stage is 0.
C23_Witness ==
  /\ pc = "evaluated"
  /\ g_snapshot.t_core_est_c = CASCADE_THRESHOLDS[1]
  /\ g_anomaly.cascade_stage = 0


\* ------------------------------------------------------------------------
\* Properties of the inbound parser (checked under SpecRx)
\* ------------------------------------------------------------------------

\* The step is a call of input_rx_feed.
IsFeed == pc = "rx" /\ link.wire # << >>

\* The receive buffer once the byte on the wire has been appended to it, as
\* a sequence.
Appended ==
  [i \in 1..g_input_rx.write_pos |-> g_input_rx.buf[i - 1]]
    \o <<Head(link.wire)>>

\* The bytes from the first sync byte on (none if there is no sync byte).
RECURSIVE FromSync(_)
FromSync(sq) ==
  IF sq = << >> \/ Head(sq) = INPUT_SYNC_BYTE THEN sq ELSE FromSync(Tail(sq))

\* The length byte fits the type byte.
HeadFits(sq) ==
  \/ sq[3] = INPUT_TYPE_PACK /\ sq[2] = INPUT_PACK_FRAME_SIZE
  \/ sq[3] = INPUT_TYPE_MODULE /\ sq[2] = INPUT_MODULE_FRAME_SIZE

\* The bytes start with a complete frame whose head fits and whose last
\* byte is the XOR of the bytes before it.
StartsWithFrame(sq) ==
  /\ Len(sq) >= 3
  /\ HeadFits(sq)
  /\ Len(sq) >= sq[2]
  /\ sq[sq[2]] = SeqXor(SubSeq(sq, 1, sq[2] - 1))

\* The slots present once the frame at the head of sq has been stored.
PresentWith(rx, sq) ==
  {m \in 0..(NUM_MODULES - 1) : HasBit(rx.modules_received, 2 ^ m)}
    \cup (IF rx.pack_received # 0 THEN {NUM_MODULES} ELSE {})
    \cup ({SlotOf(sq)} \ {-1})

\* The stored frames are those of before, the frame at the head of sq
\* (if any) having taken its slot.
StoredWith(old, new, sq, accepted) ==
  /\ new.last_pack =
       IF accepted /\ SlotOf(sq) = NUM_MODULES
       THEN [i \in 0..(SIZEOF_INPUT_PACK_FRAME - 1) |-> sq[i + 1]]
       ELSE old.last_pack
  /\ \A m \in 0..(NUM_MODULES - 1) :
       IF accepted /\ SlotOf(sq) = m
       THEN \A i \in 0..(INPUT_MODULE_FRAME_SIZE - 1) :
              new.last_modules[m][i] = sq[i + 1]
       ELSE new.last_modules[m] = old.last_modules[m]

\* C24 as stated: input_rx_feed returns 2 exactly when the fed byte is the
\* last byte of a valid frame and the pack frame and the eight module
\* frames have been received since the last cycle reset, 1 when the byte is
\* the last byte of a valid frame and the set is incomplete, 0 otherwise.
C24_ReportsOnLastByte ==
  link.result >= 0
  => /\ link.result = 2 <=> (link.completed /\ link.sent = AllSlots)
     /\ link.result = 1 <=> (link.completed /\ link.sent # AllSlots)

\* C24: input_rx_feed makes one parse attempt on the buffer with the fed
\* byte appended.  It returns 2 exactly when the bytes from the first sync
\* on start with a complete valid frame and, that frame stored, the pack
\* frame and the module indexes 0..7 are all present since the last cycle
\* reset; 1 when they start with such a frame and the set is incomplete; 0
\* otherwise.  The cycle reset that follows a 2 clears the presence
\* tracking, and the stored frames are those of before the call plus the
\* frame just stored.
C24_ReportsParsedFrame ==
  [][IsFeed =>
       LET sq == FromSync(Appended)
           accepted == StartsWithFrame(sq)
           complete == accepted /\ PresentWith(g_input_rx, sq) = AllSlots
       IN /\ link'.result = 2 <=> complete
          /\ link'.result = 1 <=> (accepted /\ ~complete)
          /\ link'.result = 0 <=> ~accepted
          /\ complete => /\ g_input_rx'.pack_received = 0
                         /\ g_input_rx'.modules_received = 0
          /\ StoredWith(g_input_rx, g_input_rx', sq, accepted)]_vars

\* C24 witness: the ninth frame of a cycle has been reported with 2 and the
\* cycle reset has cleared the presence tracking; the frames are still
\* stored.
C24_Witness ==
  /\ link.result = 2
  /\ link.sent = AllSlots
  /\ g_input_rx.pack_received = 0
  /\ g_input_rx.modules_received = 0
  /\ g_input_rx.last_pack[0] = INPUT_SYNC_BYTE
  /\ \A m \in 0..(NUM_MODULES - 1) : g_input_rx.last_modules[m][3] = m


\* The slot of the frame holds the bytes of the frame.
Stored(rx, frame) ==
  IF SlotOf(frame) = NUM_MODULES
  THEN rx.last_pack = [i \in 0..(SIZEOF_INPUT_PACK_FRAME - 1) |-> frame[i + 1]]
  ELSE \A i \in 0..(INPUT_MODULE_FRAME_SIZE - 1) :
         rx.last_modules[SlotOf(frame)][i] = frame[i + 1]

\* C25: on a stream of valid frames in any order with any amount of filler
\* between them, fed from an empty buffer with cleared presence tracking,
\* the feed call given the last byte of a frame reports it (1 or 2) and the
\* frame is then stored in its slot, every other call returns 0, and 2 is
\* returned exactly on the last byte of the frame that completes the set
\* of the pack frame and the module frames 0..7.
C25_AnyOrderAnyFiller ==
  (link.clean /\ link.result >= 0)
  => /\ link.completed <=> link.result \in {1, 2}
     /\ (link.completed /\ SlotOf(link.frame) >= 0)
          => Stored(g_input_rx, link.frame)
     /\ link.result = 2 <=> (link.completed /\ link.sent = AllSlots)

\* C25 witness: nine frames, the frame of module 0 coming last (so the
\* pack frame is not last and the module frames are out of order); its
\* last byte returned 2, all nine are stored and applied to the snapshot.
C25_Witness ==
  /\ link.clean /\ ~link.disturbed
  /\ link.started = NUM_MODULES + 1
  /\ link.result = 2 /\ link.completed
  /\ SlotOf(link.frame) = 0
  /\ g_input_rx.last_pack = [i \in 0..(SIZEOF_INPUT_PACK_FRAME - 1) |->
                               PackFrame(3328)[i + 1]]
  /\ \A m \in 0..(NUM_MODULES - 1) :
       /\ Stored(g_input_rx, ModuleFrame(m, -5, m))
       /\ g_snapshot.modules[m + 1].ntc1_c = (280 + 3 * m) * 10
  /\ g_snapshot.pack_voltage_v = 33280


\* The receive buffer as a sequence.
Buffered(rx) == [i \in 1..rx.write_pos |-> rx.buf[i - 1]]

\* The bytes start with a sync whose frame is in error: the length byte
\* does not fit the type byte, the type byte is unknown, or the frame is
\* complete and its last byte is not the XOR of the bytes before it.
StartsWithError(sq) ==
  /\ Len(sq) >= 3
  /\ \/ ~HeadFits(sq)
     \/ /\ Len(sq) >= sq[2]
        /\ sq[sq[2]] # SeqXor(SubSeq(sq, 1, sq[2] - 1))

\* C26: when the buffered bytes at the sync have a length byte that does
\* not fit the type, an unknown type byte or a bad checksum, the feed call
\* drops exactly the sync byte, returns 0 and leaves last_pack,
\* last_modules and the presence tracking as they were.
C26_ErrorsDropOneByte ==
  [][(IsFeed /\ StartsWithError(FromSync(Appended)))
       => /\ link'.result = 0
          /\ Buffered(g_input_rx') = Tail(FromSync(Appended))
          /\ g_input_rx'.last_pack = g_input_rx.last_pack
          /\ g_input_rx'.last_modules = g_input_rx.last_modules
          /\ g_input_rx'.pack_received = g_input_rx.pack_received
          /\ g_input_rx'.modules_received = g_input_rx.modules_received
          /\ UNCHANGED g_snapshot]_vars

\* C26 witness: a module frame with a bad checksum has been fed while the
\* pack frame and some module frames were present; all of it but the sync
\* is still in the buffer and the call returned 0.
C26_Witness ==
  /\ link.wire = << >>
  /\ link.result = 0
  /\ Buffered(g_input_rx) = Tail(BadChecksum(ModuleFrame(1, 0, 0)))
  /\ g_input_rx.pack_received = 1
  /\ g_input_rx.modules_received # 0


\* Offset of v_delta[g] in input_module_frame_t.
DeltaOffset(g) == 11 + g

\* Offset of the checksum byte in a frame of the given length.
ChecksumOffset(frame_len) == frame_len - 1

\* C27: in every module frame the parser has accepted and the firmware
\* has applied, the 13 delta bytes lie in front of the checksum byte, and
\* group voltage g of the module is base_mv + delta[g] (in mV).
C27_ThirteenPayloadDeltas ==
  link.result = 2
  => \A m \in 0..(NUM_MODULES - 1) : \A g \in 0..(GROUPS_PER_MODULE - 1) :
       LET mf == g_input_rx.last_modules[m]
       IN /\ DeltaOffset(g) < ChecksumOffset(mf[1])
          /\ g_snapshot.modules[m + 1].group_voltages_v[g + 1]
               = U16At(mf, 9) + S8At(mf, DeltaOffset(g))


\* ------------------------------------------------------------------------
\* Properties of the telemetry frame (checked under SpecPacket)
\* ------------------------------------------------------------------------

\* The bytes of a frame as a sequence.
FrameBytes(pkt) == [i \in 1..PACKET_PACK_SIZE |-> pkt[i - 1]]

U32At(f, i) == U16At(f, i) + 65536 * U16At(f, i + 2)

\* The fields read from the bytes of a frame.
ReadPack(pkt) ==
  [ sync |-> pkt[0], length |-> pkt[1], frame_type |-> pkt[2],
    timestamp_ms |-> U32At(pkt, 3),
    pack_voltage_dv |-> U16At(pkt, 7), pack_current_da |-> S16At(pkt, 9),
    r_int_cmohm |-> U16At(pkt, 11), max_temp_dt |-> S16At(pkt, 13),
    ambient_temp_dt |-> S16At(pkt, 15), core_temp_est_dt |-> S16At(pkt, 17),
    bytes |-> [i \in 19..21 |-> pkt[i]],
    pressure_delta_1_chpa |-> S16At(pkt, 22),
    pressure_delta_2_chpa |-> S16At(pkt, 24),
    v_spread_dmv |-> U16At(pkt, 26),
    tail |-> [i \in 28..(PACKET_PACK_SIZE - 1) |-> pkt[i]] ]

\* The bytes of a frame with the given fields.
WritePack(f) ==
  <<f.sync, f.length, f.frame_type>>
    \o <<Lo(f.timestamp_ms), Hi(f.timestamp_ms),
         (f.timestamp_ms \div 65536) % 256,
         (f.timestamp_ms \div 16777216) % 256>>
    \o Le16(f.pack_voltage_dv) \o Le16(f.pack_current_da)
    \o Le16(f.r_int_cmohm) \o Le16(f.max_temp_dt)
    \o Le16(f.ambient_temp_dt) \o Le16(f.core_temp_est_dt)
    \o [i \in 1..3 |-> f.bytes[i + 18]]
    \o Le16(f.pressure_delta_1_chpa) \o Le16(f.pressure_delta_2_chpa)
    \o Le16(f.v_spread_dmv)
    \o [i \in 1..(PACKET_PACK_SIZE - 28) |-> f.tail[i + 27]]

\* The offsets at which the frame held differs from the frame emitted.
Changed == {i \in 0..(PACKET_PACK_SIZE - 1) : tx.pkt[i] # tx.emitted[i]}

C29_SingleByteChangeFails ==
  (pc = "validated" /\ \E i \in 1..(PACKET_PACK_SIZE - 1) : Changed = {i})
  => tx.valid = -1

\* C29 witness: the low byte of pack_voltage_dv has been changed and the
\* frame has failed validation.
C29_Witness ==
  /\ pc = "validated"
  /\ Changed = {7}
  /\ tx.valid = -1

\* C30: packet_validate_pack returns -1 on every frame whose sync byte is
\* not 0xAA, whose length byte is not 38 or whose type byte is not 1,
\* whatever its checksum byte.
C30_ValidateChecksHead ==
  (pc = "validated"
     /\ (tx.pkt[0] # PACKET_SYNC_BYTE \/ tx.pkt[1] # PACKET_PACK_SIZE
           \/ tx.pkt[2] # PACKET_TYPE_PACK))
  => tx.valid = -1


\* A gas ratio in hundredths cut to 0..100.
GasByte(ratio) == IF ratio > 100 THEN 100 ELSE IF ratio < 0 THEN 0 ELSE ratio

\* C31: in every encoded frame each of the two gas-ratio bytes is the gas
\* ratio times 100 clamped to 0..100, also for ratios above 1.0 and below
\* 0.
C31_GasBytesClamped ==
  pc \in {"encoded", "validated"}
  => /\ tx.emitted[20] = GasByte(g_snapshot.gas_ratio_1)
     /\ tx.emitted[21] = GasByte(g_snapshot.gas_ratio_2)


\* ------------------------------------------------------------------------
\* Further properties of the engine (checked under SpecEngine)
\* ------------------------------------------------------------------------

\* The last call is an update with two categories and no flag on an
\* unlatched engine.
TwoOnUnlatched ==
  /\ IsUpdate(call)
  /\ call.r.active_count = 2
  /\ ~call.r.is_short_circuit /\ ~call.r.is_emergency_direct
  /\ ~call.prev.emergency_latched

\* C32 as stated: a two-category update that finds the unlatched engine
\* outside CRITICAL leaves it in CRITICAL with critical_countdown equal
\* to 0.
C32_EntryLeavesCountdownZero ==
  (TwoOnUnlatched /\ call.prev.current_state # STATE_CRITICAL)
  => /\ g_corr.current_state = STATE_CRITICAL
     /\ g_corr.critical_countdown = 0

\* C32: a two-category update that finds the unlatched engine outside
\* CRITICAL zeroes the countdown and counts itself, leaving it at 1; each
\* further one adds one; the update that brings the countdown to
\* critical_countdown_limit or above leaves the engine in EMERGENCY,
\* latched, every earlier one in CRITICAL.
C32_CountdownCountsEntry ==
  TwoOnUnlatched
  => LET n == IF call.prev.current_state = STATE_CRITICAL
              THEN call.prev.critical_countdown + 1 ELSE 1
     IN /\ g_corr.critical_countdown = n
        /\ IF n >= call.prev.critical_countdown_limit
           THEN Latched(g_corr) /\ call.ret = STATE_EMERGENCY
           ELSE /\ g_corr.current_state = STATE_CRITICAL
                /\ ~g_corr.emergency_latched
                /\ call.ret = STATE_CRITICAL

\* C32 witness: the engine has entered CRITICAL from WARNING and the
\* countdown is 1.
C32_Witness ==
  /\ TwoOnUnlatched
  /\ call.prev.current_state = STATE_WARNING
  /\ g_corr.current_state = STATE_CRITICAL
  /\ g_corr.critical_countdown = 1

\* ------------------------------------------------------------------------
\* Further properties of the evaluator (checked under SpecEval)
\* ------------------------------------------------------------------------

Pos(x) == IF x > 0 THEN x ELSE 0

\* The smaller gas ratio and the larger pressure delta of the snapshot.
SmallerGas == MinOf(g_snapshot.gas_ratio_1, g_snapshot.gas_ratio_2)

LargerPressure ==
  MaxOf(g_snapshot.pressure_delta_1_hpa, g_snapshot.pressure_delta_2_hpa)

\* The sum of the four contributions limited to 1, in parts of RISK_ONE,
\* for a given dT/dt term and pressure term.
ClampedSum(dt_term, pressure_term) ==
  MinOf(RISK_ONE,
        Pos(5 * (g_snapshot.t_core_est_c - 6000)) + dt_term
          + Pos(600 * (80 - SmallerGas)) + pressure_term)

\* C33 as stated: the risk factor is min(1, max(0, (t_core - 60)/240)
\* + dt_dt_max * 0.05 + max(0, 0.8 - worst_gas) * 0.5
\* + max(0, worst_pressure) * 0.02) for every snapshot, small positive
\* dt_dt_max and pressure included.
C33_RiskIsClampedSum ==
  pc = "evaluated"
  => g_anomaly.risk_factor
       = ClampedSum(60 * g_snapshot.dt_dt_max, Pos(24 * LargerPressure))

\* C33: the risk factor is that clamped sum with the dT/dt term counted
\* only when dt_dt_max is above 0.1 and the pressure term only when the
\* larger pressure delta is above 1.0 hPa.
C33_RiskIsGatedClampedSum ==
  pc = "evaluated"
  => g_anomaly.risk_factor
       = ClampedSum(IF g_snapshot.dt_dt_max > 10
                    THEN 60 * g_snapshot.dt_dt_max ELSE 0,
                    IF LargerPressure > 100 THEN 24 * LargerPressure ELSE 0)

\* A snapshot with dT/dt just above 0.1 and a small positive pressure
\* delta: only the dT/dt term is counted.
C33_Witness ==
  /\ pc = "evaluated"
  /\ g_snapshot.dt_dt_max = 11
  /\ LargerPressure \in 1..100
  /\ g_anomaly.risk_factor = 660

\* ------------------------------------------------------------------------
\* The latch and the returned state (checked under SpecEngine)
\* ------------------------------------------------------------------------

\* C34: in every state reachable through init, update and reset the latch
\* is set exactly when current_state is EMERGENCY, and the value an update
\* returns is the current_state it leaves.
C34_LatchIffEmergency ==
  /\ g_corr.emergency_latched <=> g_corr.current_state = STATE_EMERGENCY
  /\ IsUpdate(call) => call.ret = g_corr.current_state

\* An update that releases the latch: it returns NORMAL and leaves NORMAL
\* with the latch cleared.
C34_Witness ==
  /\ IsUpdate(call)
  /\ Latched(call.prev)
  /\ ~g_corr.emergency_latched
  /\ g_corr.current_state = STATE_NORMAL
  /\ call.ret = STATE_NORMAL

\* ------------------------------------------------------------------------
\* The contactor after a trip (checked under SpecTrip)
\* ------------------------------------------------------------------------

\* C35: once an EMERGENCY has opened the contactor the relay output stays at
\* the disconnected level in every later state, also after the latch has
\* released to NORMAL and after the demo restart has reset the engine; the
\* only step that drives the relay to the connected level is the start-up.
C35_StaysOpen ==
  /\ watch.opened => relay = GPIO_HIGH
  /\ (pc # "boot" /\ relay = GPIO_LOW) => ~watch.opened /\ g_safety_armed

\* C35 witness: the engine tripped, the latch released on nominal data, the
\* demo restart has reset the engine, and the relay is still open.
C35_Witness ==
  /\ watch.opened
  /\ call.op = "reset"
  /\ env.data = Nom
  /\ g_corr.current_state = STATE_NORMAL
  /\ leds = STATE_NORMAL
  /\ relay = GPIO_HIGH

\* ------------------------------------------------------------------------
\* Deadlines against the periods (checked under SpecTrip)
\* ------------------------------------------------------------------------

\* A deadline at the end of a tick: on the tick grid, after now and no later
\* than now + period.
WithinPeriod(next, period) ==
  /\ next % SCHED_TICK_MS = 0
  /\ next > g_uptime_ms
  /\ next <= g_uptime_ms + period

\* C36: at the end of every scheduler tick each of the three deadlines is at
\* most now + the slot's current period, across every rate change and the
\* scheduler reset; the deadline lies on the tick grid after now, so the
\* slot runs again within one current period.
C36_DeadlineWithinPeriod ==
  pc = "advance"
  => /\ WithinPeriod(g_next_fast_ms, g_fast_loop_ms)
     /\ WithinPeriod(g_next_med_ms, g_med_loop_ms)
     /\ WithinPeriod(g_next_slow_ms, g_slow_loop_ms)

\* C36 witness: the first tick after the restart; the medium slot found an
\* anomaly and shortened the periods after the fast slot had run, and the
\* fast deadline was pulled in from 100 ms to 20 ms.
C36_Witness ==
  /\ pc = "advance"
  /\ env.horizon = RestartHorizonMs
  /\ g_uptime_ms = 0
  /\ call.op = "med"
  /\ g_fast_loop_ms = FAST_LOOP_ALERT_MS
  /\ g_next_fast_ms = FAST_LOOP_ALERT_MS
  /\ g_next_med_ms = MED_LOOP_ALERT_MS
  /\ g_next_slow_ms = SLOW_LOOP_ALERT_MS

\* ------------------------------------------------------------------------
\* Which slot advances the holds (checked under Spec)
\* ------------------------------------------------------------------------

\* The three hold counters of the engine.
HoldCounters(e) ==
  <<e.critical_countdown, e.deescalation_counter,
    e.emergency_recovery_counter>>

\* C37: the update a fast slot runs inline carries a short-circuit result
\* and leaves critical_countdown and deescalation_counter as they are and
\* the recovery counter at zero; a medium-slot run raises each counter by
\* at most one; no other step of the loop changes a counter, the restart
\* apart.
C37_HoldsAdvanceInMediumSlot ==
  [][ /\ FastTrips
         => /\ call'.op = "fast"
            /\ call'.r.is_short_circuit
            /\ g_corr'.critical_countdown = g_corr.critical_countdown
            /\ g_corr'.deescalation_counter = g_corr.deescalation_counter
            /\ g_corr'.emergency_recovery_counter = 0
      /\ MedDue
         => /\ call'.op = "med"
            /\ \A i \in 1..3 :
                 HoldCounters(g_corr')[i] <= HoldCounters(g_corr)[i] + 1
      /\ ~(MedDue \/ FastTrips \/ pc = "advance")
         => HoldCounters(g_corr') = HoldCounters(g_corr) ]_vars

\* C37 witness: a fast slot tripped on a latched engine whose recovery
\* counter a nominal medium-slot run had raised, and zeroed the counter.
C37_Witness ==
  /\ pc = "med"
  /\ call.op = "fast"
  /\ call.r.is_short_circuit
  /\ Latched(call.prev)
  /\ call.prev.emergency_recovery_counter > 0
  /\ g_corr.emergency_recovery_counter = 0

\* ------------------------------------------------------------------------
\* Duration of the recovery hold (checked under Spec)
\* ------------------------------------------------------------------------

\* The medium slot has run at this tick and released the latch.
Released ==
  /\ pc = "slow"
  /\ g_next_med_ms = g_uptime_ms + g_med_loop_ms
  /\ call.op = "med"
  /\ Latched(call.prev)
  /\ ~g_corr.emergency_latched

\* The recovery limit is never rescaled and the medium period is 100 ms
\* whenever the engine is in EMERGENCY.
RecoveryTiming ==
  /\ g_corr.emergency_recovery_limit = INIT_RECOVERY_LIMIT
  /\ g_corr.current_state = STATE_EMERGENCY
     => g_med_loop_ms = MED_LOOP_ALERT_MS

RecoveryHoldMs == INIT_RECOVERY_LIMIT * MED_LOOP_ALERT_MS

\* C38 as stated: emergency_recovery_limit is 10 in every reachable state,
\* the medium period is 100 ms whenever the engine is in EMERGENCY, and the
\* latch is released by the 10th consecutive nominal medium evaluation,
\* 1000 ms of scheduler time after the last anomalous evaluation.
C38_ReleaseAfterOneSecond ==
  /\ RecoveryTiming
  /\ Released
     => /\ call.prev.emergency_recovery_counter = INIT_RECOVERY_LIMIT - 1
        /\ watch.anom_ms = RecoveryHoldMs

\* C38: the same, with the release 1000 ms after the last anomalous
\* evaluation when the medium slot ran that evaluation, and more than
\* 900 ms and at most 1000 ms after it when the fast slot ran it inline.
C38_ReleaseWithinOneSecond ==
  /\ RecoveryTiming
  /\ Released
     => /\ call.prev.emergency_recovery_counter = INIT_RECOVERY_LIMIT - 1
        /\ watch.anom_ms > RecoveryHoldMs - MED_LOOP_ALERT_MS
        /\ watch.anom_ms <= RecoveryHoldMs
        /\ watch.anom_by = "med" => watch.anom_ms = RecoveryHoldMs

\* C38 witness: the latch is released less than 1000 ms after an inline
\* fast-slot evaluation, the last anomalous one.
C38_Witness ==
  /\ Released
  /\ watch.anom_by = "fast"
  /\ watch.anom_ms < RecoveryHoldMs
  /\ g_corr.current_state = STATE_NORMAL

\* ------------------------------------------------------------------------
\* Further properties of the inbound parser (checked under SpecRx)
\* ------------------------------------------------------------------------

\* C39: after every call of input_rx_feed from an initialised parser
\* write_pos is within the 64-byte buffer and at most 29 bytes remain
\* buffered, so no call finds the buffer full and the overflow reset is
\* never taken.
C39_BufferNeverFills ==
  /\ g_input_rx.write_pos <= INPUT_RX_BUF_SIZE
  /\ g_input_rx.write_pos <= INPUT_PACK_FRAME_SIZE - 1
  /\ IsFeed => g_input_rx.write_pos < INPUT_RX_BUF_SIZE

\* C39 witness: the 30th byte after a sync completed a pack frame with a
\* bad checksum; the call dropped the sync and left 29 bytes buffered.
C39_Witness ==
  /\ link.result = 0
  /\ g_input_rx.write_pos = INPUT_PACK_FRAME_SIZE - 1
  /\ g_input_rx.buf[0] = INPUT_PACK_FRAME_SIZE
  /\ g_input_rx.buf[1] = INPUT_TYPE_PACK

\* The bytes from the sync on start with a valid module frame whose index
\* is not one of the pack's modules.
StartsWithStrayModule(sq) ==
  /\ StartsWithFrame(sq)
  /\ sq[3] = INPUT_TYPE_MODULE
  /\ sq[4] >= NUM_MODULES

\* C40: a feed call that completes a module frame with a valid length and
\* checksum and a module index of 8 or more consumes the frame, writes no
\* stored frame, sets no presence bit, and reports a parsed frame.
C40_StrayModuleDropped ==
  [][(IsFeed /\ StartsWithStrayModule(FromSync(Appended)))
     => LET sq == FromSync(Appended)
        IN /\ link'.result = 1
           /\ Buffered(g_input_rx') = SubSeq(sq, sq[2] + 1, Len(sq))
           /\ g_input_rx'.last_pack = g_input_rx.last_pack
           /\ g_input_rx'.last_modules = g_input_rx.last_modules
           /\ g_input_rx'.pack_received = g_input_rx.pack_received
           /\ g_input_rx'.modules_received = g_input_rx.modules_received
    ]_vars

\* C40 witness: the last byte of a module frame with index 8 has been fed
\* to a parser that holds some frames of the cycle; the call reported a
\* frame and the buffer is empty.
C40_Witness ==
  /\ link.wire = << >>
  /\ link.frame # << >>
  /\ SlotOf(link.frame) = -1
  /\ link.result = 1
  /\ g_input_rx.write_pos = 0
  /\ g_input_rx.pack_received = 1
  /\ g_input_rx.modules_received # 0

====
